---- MODULE Spec2Model ----
\* Model of the integration template in five parts, each with its own
\* specification.
\*
\* Spec, SpecSeq: the RPC-backed account cache
\* (src/src/account_caching/rpc_cache.rs) that the trading venues share.  Each
\* task that calls into the cache is a "caller"; a call runs atomically up to
\* the point where it awaits the remote RPC client, and atomically again from
\* the response to its return.  Every caller runs the same code; the call of
\* one of them, Observed, is recorded (what it was given, what the remote
\* answered, what it returned).  The record is looked at the moment the call
\* returns ("done"): the next thing to happen is Return, which hands the result
\* over and drops the record, or a reset_cache.
\*
\* SpecBounds: the boundary search (src/src/trading_venue/bounds.rs) run on one
\* pricing function, one loop iteration per step.
\*
\* SpecVenue: the lifecycle of the two venues (src/src/example/mod.rs,
\* src/src/oxedium/amm.rs): update_state, which reads the chain through the
\* account table, quote, bounds, get_required_pubkeys_for_update and
\* generate_swap_instruction, one call per step.
\*
\* SpecBoundsFair: SpecBounds with the steps of the search taken when they can
\* be, for what the search eventually does.
\*
\* SpecSwapMath: swap_with_slippage (src/src/example/amm.rs) applied to
\* arguments of its own.
\*
\* SpecDisplay: the calls that format a PoolProtocol
\* (src/src/trading_venue/protocol.rs), one call frame per step.
EXTENDS Integers, Sequences, FiniteSets, TLC

\* ------------------------------------------------------------------ bounds
MaxLen == 2            \* longest pubkey slice handed to get_accounts / get_multiple
MaxFetched == 4        \* cap of the fetched-keys count kept under SpecSeq
Width == 10            \* bits of an amount in the boundary search (u64 in the source)
MaxFrames == 128       \* call frames the stack of a thread holds before it overflows

Callers == {"c1", "c2"}      \* tasks that share one cache
Observed == "c1"
Keys == {"A", "B"}           \* Pubkey values
Payloads == {"X", "Y"}       \* Account values
None == "None"               \* Option::None
OptionAccount == Payloads \cup {None}

KeyLists == UNION {[1..n -> Keys] : n \in 0..MaxLen}

\* ------------------------------------------------------------------ state
VARIABLES
    cache,          \* RpcClientCache.cache: DashMap<Pubkey, Option<Account>>
    pc,             \* per caller: "idle", "await_one", "await_many", "done" (returned)
    pubkeys,        \* per caller: the argument (get_account: a one-key list)
    keys,           \* per caller: the keys handed to the RPC (get_accounts' `keys`)
    result_map,     \* per caller: get_accounts' local `result_map`
    op,             \* Observed: the operation called
    ret,            \* Observed: what the call returned
    response,       \* Observed: what the remote call answered
    rpc_calls,      \* Observed: remote calls issued by the call
    cache_at_call,  \* Observed: the entries of the requested keys when the call started
    changed,        \* Observed: keys whose entry the call created or altered
    replaced,       \* Observed: keys whose entry the call overwrote with another value
    counting,       \* whether the three counters below are kept (SpecSeq)
    fetched_keys,   \* keys sent by get_accounts since construction / reset
    requested,      \* keys requested through get_accounts since then
    rpc_ok          \* no remote call failed since then

VARIABLES
    f,              \* find_boundaries: the pricing function it was given
    search          \* find_boundaries: its locals and where it stands

VARIABLES
    venue,          \* the fields of the venue (RaydiumAmmVenue or OxediumAmmVenue)
    call            \* the last call on the venue: what it was given and returned

locals == <<pc, pubkeys, keys, result_map>>
record == <<op, ret, response, rpc_calls, cache_at_call, changed, replaced>>
counters == <<counting, fetched_keys, requested, rpc_ok>>
cacheVars == <<cache, locals, record, counters>>
boundsVars == <<f, search>>
venueVars == <<venue, call>>
others == <<boundsVars, venueVars>>    \* what a cache operation cannot touch
vars == <<cacheVars, boundsVars, venueVars>>

EmptyMap == [k \in {} |-> None]
NoRet == [kind |-> "none", val |-> <<>>]
Ok(v) == [kind |-> "Ok", val |-> v]
Err == [kind |-> "Err", val |-> <<>>]     \* AccountCacheError::FailedToFetchAccount
Panic == [kind |-> "Panic", val |-> <<>>]

Range(s) == {s[i] : i \in 1..Len(s)}
Restrict(m, S) == [k \in DOMAIN m \cap S |-> m[k]]

\* an insert that drops what the map held before
Insert_dropping_rest(m, k, v) == [x \in {k} |-> v]

\* DashMap::insert / AHashMap::insert
Insert(m, k, v) == [x \in DOMAIN m \cup {k} |-> IF x = k THEN v ELSE m[x]]

\* ------------------------------------------------------------------ pure parts

\* RpcClientCache::get_multiple: the cached value, or None when there is no entry
get_multiple(c, ks) ==
    [i \in 1..Len(ks) |-> IF ks[i] \in DOMAIN c THEN c[ks[i]] ELSE None]

\* get_accounts, "Identify cache hits and misses": the keys pushed to `keys`
RECURSIVE MissKeys(_, _)
MissKeys(cached_results, ks) ==
    IF ks = <<>> THEN <<>>
    ELSE (IF Head(cached_results) = None THEN <<Head(ks)>> ELSE <<>>)
         \o MissKeys(Tail(cached_results), Tail(ks))

\* get_accounts, "Identify cache hits and misses": the hits put in `result_map`
RECURSIVE HitMap(_, _)
HitMap(cached_results, ks) ==
    IF ks = <<>> THEN EmptyMap
    ELSE LET n == Len(ks)
             m == HitMap(SubSeq(cached_results, 1, n - 1), SubSeq(ks, 1, n - 1))
         IN IF cached_results[n] # None THEN Insert(m, ks[n], cached_results[n])
            ELSE m

\* get_accounts, "Update map and cache": insert along keys.iter().zip(response.iter())
RECURSIVE ZipInsert(_, _, _)
ZipInsert(m, ks, resp) ==
    IF ks = <<>> \/ resp = <<>> THEN m
    ELSE ZipInsert(Insert(m, Head(ks), Head(resp)), Tail(ks), Tail(resp))

\* a reassembly that walks the keys from the back
Reassemble_reversed(ks, m) ==
    IF \E i \in 1..Len(ks) : ks[i] \notin DOMAIN m
    THEN Panic
    ELSE Ok([i \in 1..Len(ks) |-> m[ks[Len(ks) + 1 - i]]])

\* get_accounts, "Reassemble results in original input order"; the unwrap of a
\* key that is not in result_map panics
Reassemble(ks, m) ==
    IF \E i \in 1..Len(ks) : ks[i] \notin DOMAIN m
    THEN Panic
    ELSE Ok([i \in 1..Len(ks) |-> m[ks[i]]])

\* ------------------------------------------------------------------ initial state
\* RpcClientCache::new: an empty table, nobody calling
InitCache ==
    /\ cache = EmptyMap
    /\ pc = [c \in Callers |-> "idle"]
    /\ pubkeys = [c \in Callers |-> <<>>]
    /\ keys = [c \in Callers |-> <<>>]
    /\ result_map = [c \in Callers |-> EmptyMap]
    /\ op = "none"
    /\ ret = NoRet
    /\ response = NoRet
    /\ rpc_calls = 0
    /\ cache_at_call = EmptyMap
    /\ changed = {}
    /\ replaced = {}
    /\ fetched_keys = 0
    /\ requested = {}
    /\ rpc_ok = TRUE

\* no boundary search is running
NoSearch ==
    /\ f = "none"
    /\ search = [phase |-> "idle"]

\* no venue has been constructed
NoVenue ==
    /\ venue = [kind |-> "none"]
    /\ call = [op |-> "none"]

Init == InitCache /\ counting = FALSE /\ NoSearch /\ NoVenue

InFlight == {c \in Callers : pc[c] \in {"await_one", "await_many"}}

\* the keys whose entry is not the same in the tables `before` and `after`
Changed(before, after) ==
    {k \in DOMAIN before \cup DOMAIN after :
        \/ k \notin DOMAIN before
        \/ k \notin DOMAIN after
        \/ before[k] # after[k]}

\* the keys whose entry in `before` exists and has another value in `after`
Overwritten(before, after) ==
    {k \in DOMAIN before \cap DOMAIN after : before[k] # after[k]}

\* a call that runs to its return without awaiting and leaves the table as
\* `after`: Observed keeps the record of the call and its locals, the frame of
\* another caller is gone at once
Atomic(c, name, ks, r, map, after) ==
    /\ pc[c] = "idle"
    /\ pc[Observed] # "done"
    /\ IF c = Observed
       THEN /\ pc' = [pc EXCEPT ![c] = "done"]
            /\ pubkeys' = [pubkeys EXCEPT ![c] = ks]
            /\ keys' = [keys EXCEPT ![c] = <<>>]
            /\ result_map' = [result_map EXCEPT ![c] = map]
            /\ op' = name
            /\ ret' = r
            /\ response' = NoRet
            /\ rpc_calls' = 0
            /\ cache_at_call' = Restrict(cache, Range(ks))
            /\ changed' = Changed(cache, after)
            /\ replaced' = Overwritten(cache, after)
       ELSE /\ pc' = [pc EXCEPT ![c] = "idle"]
            /\ pubkeys' = [pubkeys EXCEPT ![c] = <<>>]
            /\ keys' = [keys EXCEPT ![c] = <<>>]
            /\ result_map' = [result_map EXCEPT ![c] = EmptyMap]
            /\ UNCHANGED record

\* a call that suspends on a remote call for the keys `sent`, the table left
\* as `after`
Await(c, name, at, ks, sent, map, after) ==
    /\ pc[c] = "idle"
    /\ pc[Observed] # "done"
    /\ pc' = [pc EXCEPT ![c] = at]
    /\ pubkeys' = [pubkeys EXCEPT ![c] = ks]
    /\ keys' = [keys EXCEPT ![c] = sent]
    /\ result_map' = [result_map EXCEPT ![c] = map]
    /\ IF c = Observed
       THEN /\ op' = name
            /\ ret' = NoRet
            /\ response' = NoRet
            /\ rpc_calls' = 1
            /\ cache_at_call' = Restrict(cache, Range(ks))
            /\ changed' = Changed(cache, after)
            /\ replaced' = Overwritten(cache, after)
       ELSE UNCHANGED record

\* a suspended call resumes with the remote's answer `resp`, leaves the table
\* as `after` and returns r
Resume(c, resp, r, map, after) ==
    /\ pc[Observed] # "done"
    /\ IF c = Observed
       THEN /\ pc' = [pc EXCEPT ![c] = "done"]
            /\ result_map' = [result_map EXCEPT ![c] = map]
            /\ ret' = r
            /\ response' = resp
            /\ changed' = changed \cup Changed(cache, after)
            /\ replaced' = replaced \cup Overwritten(cache, after)
            /\ UNCHANGED <<pubkeys, keys, op, rpc_calls, cache_at_call>>
       ELSE /\ pc' = [pc EXCEPT ![c] = "idle"]
            /\ pubkeys' = [pubkeys EXCEPT ![c] = <<>>]
            /\ keys' = [keys EXCEPT ![c] = <<>>]
            /\ result_map' = [result_map EXCEPT ![c] = EmptyMap]
            /\ UNCHANGED record

\* ------------------------------------------------------------------ get_multiple
\* RpcClientCache::get_multiple called on its own: reads only
GetMultiple(c, ks) ==
    /\ Atomic(c, "get_multiple", ks, Ok(get_multiple(cache, ks)), EmptyMap, cache)
    /\ UNCHANGED <<cache, counters>>

\* ------------------------------------------------------------------ get_account
\* a get_account that takes a cached None for a miss, as get_accounts does
GetAccountHit_refetching_none(c, k) ==
    /\ k \in DOMAIN cache
    /\ IF cache[k] = None
       THEN Await(c, "get_account", "await_one", <<k>>, <<k>>, EmptyMap, cache)
       ELSE Atomic(c, "get_account", <<k>>, Ok(<<cache[k]>>), EmptyMap, cache)
    /\ UNCHANGED <<cache, counters>>

\* get_account, the entry is there: `return Ok(account.to_owned())`
GetAccountHit(c, k) ==
    /\ k \in DOMAIN cache
    /\ Atomic(c, "get_account", <<k>>, Ok(<<cache[k]>>), EmptyMap, cache)
    /\ UNCHANGED <<cache, counters>>

\* get_account, no entry: rpc_client.get_account(pubkey) is awaited
GetAccountMiss(c, k) ==
    /\ k \notin DOMAIN cache
    /\ Await(c, "get_account", "await_one", <<k>>, <<k>>, EmptyMap, cache)
    /\ UNCHANGED <<cache, counters>>

\* a get_account that keeps the entry another caller wrote in the meantime
\* (entry().or_insert instead of insert)
GetAccountFetched_keeping_first(c) ==
    /\ pc[c] = "await_one"
    /\ \E account \in Payloads :
        LET k == pubkeys[c][1]
            after == IF k \in DOMAIN cache THEN cache ELSE Insert(cache, k, account)
        IN /\ cache' = after
           /\ Resume(c, Ok(<<account>>), Ok(<<account>>), EmptyMap, after)
    /\ UNCHANGED counters

\* the RPC answered with an Account: it is cached as Some(response) and returned
GetAccountFetched(c) ==
    /\ pc[c] = "await_one"
    /\ \E account \in Payloads :
        LET after == Insert(cache, pubkeys[c][1], account)
        IN /\ cache' = after
           /\ Resume(c, Ok(<<account>>), Ok(<<account>>), EmptyMap, after)
    /\ UNCHANGED counters

\* The Ok type of RpcClient::get_account is Account, not Option<Account>: an
\* account that does not exist reaches get_account as an error, like a failed
\* request.
RpcErrors == {"AccountNotFound", "RequestFailed"}

\* a get_account that asks the RPC again after an error
GetAccountFailed_retrying(c) ==
    /\ pc[c] = "await_one"
    /\ pc[Observed] # "done"
    /\ \E e \in RpcErrors :
        IF c = Observed
        THEN /\ response' = [kind |-> e, val |-> <<>>]
             /\ rpc_calls' = rpc_calls + 1
             /\ rpc_calls < 3
             /\ UNCHANGED <<op, ret, cache_at_call, changed, replaced>>
        ELSE UNCHANGED record
    /\ UNCHANGED <<cache, locals, counters>>

\* the RPC answered with an error: `.map_err(FailedToFetchAccount)?` returns
\* before the insert
GetAccountFailed(c) ==
    /\ pc[c] = "await_one"
    /\ \E e \in RpcErrors : Resume(c, [kind |-> e, val |-> <<>>], Err, EmptyMap, cache)
    /\ rpc_ok' = (rpc_ok /\ ~counting)
    /\ UNCHANGED <<cache, counting, fetched_keys, requested>>

\* ------------------------------------------------------------------ get_accounts
\* get_accounts when `keys` ends up empty: no RPC, the result is reassembled
GetAccountsNoFetch(c, ks) ==
    /\ LET cached_results == get_multiple(cache, ks)
           hits == HitMap(cached_results, ks)
       IN /\ MissKeys(cached_results, ks) = <<>>
          /\ Atomic(c, "get_accounts", ks, Reassemble(ks, hits), hits, cache)
    /\ requested' = IF counting THEN requested \cup Range(ks) ELSE requested
    /\ UNCHANGED <<cache, counting, fetched_keys, rpc_ok>>

\* get_accounts when `keys` is not empty: get_multiple_accounts(&keys) is awaited
GetAccountsFetch(c, ks) ==
    /\ LET cached_results == get_multiple(cache, ks)
           missing == MissKeys(cached_results, ks)
       IN /\ missing # <<>>
          /\ counting => fetched_keys + Len(missing) <= MaxFetched
          /\ Await(c, "get_accounts", "await_many", ks, missing,
                   HitMap(cached_results, ks), cache)
          /\ fetched_keys' = IF counting THEN fetched_keys + Len(missing)
                             ELSE fetched_keys
    /\ requested' = IF counting THEN requested \cup Range(ks) ELSE requested
    /\ UNCHANGED <<cache, counting, rpc_ok>>

\* what get_multiple_accounts can answer for `ks`: one Option<Account> per key,
\* all read from one state of the chain; nothing on the way checks the length
BatchResponses(ks) ==
    {[i \in 1..n |-> chain[ks[i]]] : n \in 0..Len(ks), chain \in [Keys -> OptionAccount]}

\* a get_accounts that writes its whole result_map, hits included, to the cache
GetAccountsFetched_writing_hits(c) ==
    /\ pc[c] = "await_many"
    /\ \E resp \in BatchResponses(keys[c]) :
        LET merged == ZipInsert(result_map[c], keys[c], resp)
            after == [k \in DOMAIN cache \cup DOMAIN merged |->
                        IF k \in DOMAIN merged THEN merged[k] ELSE cache[k]]
        IN /\ cache' = after
           /\ Resume(c, Ok(resp), Reassemble(pubkeys[c], merged), merged, after)
    /\ UNCHANGED counters

\* the batch answered: results go to result_map and the cache, then reassembly
GetAccountsFetched(c) ==
    /\ pc[c] = "await_many"
    /\ \E resp \in BatchResponses(keys[c]) :
        LET merged == ZipInsert(result_map[c], keys[c], resp)
            after == ZipInsert(cache, keys[c], resp)
        IN /\ cache' = after
           /\ Resume(c, Ok(resp), Reassemble(pubkeys[c], merged), merged, after)
    /\ UNCHANGED counters

\* a get_accounts that records the missing keys as absent before it fails
GetAccountsFailed_marking_absent(c) ==
    /\ pc[c] = "await_many"
    /\ LET after == ZipInsert(cache, keys[c], [i \in 1..Len(keys[c]) |-> None])
       IN /\ cache' = after
          /\ Resume(c, [kind |-> "RequestFailed", val |-> <<>>], Err, result_map[c], after)
    /\ rpc_ok' = (rpc_ok /\ ~counting)
    /\ UNCHANGED <<counting, fetched_keys, requested>>

\* the batch failed: `.map_err(FailedToFetchAccount)?` returns before the loop
GetAccountsFailed(c) ==
    /\ pc[c] = "await_many"
    /\ Resume(c, [kind |-> "RequestFailed", val |-> <<>>], Err, result_map[c], cache)
    /\ rpc_ok' = (rpc_ok /\ ~counting)
    /\ UNCHANGED <<cache, counting, fetched_keys, requested>>

\* ------------------------------------------------------------------ Return
\* Observed's caller takes the result: the frame of the call and its record go
Return ==
    /\ pc[Observed] = "done"
    /\ pc' = [pc EXCEPT ![Observed] = "idle"]
    /\ pubkeys' = [pubkeys EXCEPT ![Observed] = <<>>]
    /\ keys' = [keys EXCEPT ![Observed] = <<>>]
    /\ result_map' = [result_map EXCEPT ![Observed] = EmptyMap]
    /\ op' = "none"
    /\ ret' = NoRet
    /\ response' = NoRet
    /\ rpc_calls' = 0
    /\ cache_at_call' = EmptyMap
    /\ changed' = {}
    /\ replaced' = {}
    /\ UNCHANGED <<cache, counters>>

\* ------------------------------------------------------------------ reset_cache
\* a reset taken through a shared reference, while fetches are pending
ResetCache_shared ==
    /\ cache' = EmptyMap
    /\ fetched_keys' = 0
    /\ requested' = {}
    /\ rpc_ok' = TRUE
    /\ UNCHANGED <<locals, record, counting>>

\* RpcClientCache::reset_cache(&mut self): the exclusive borrow rules out any
\* get_account / get_accounts future of this cache that is still alive
ResetCache ==
    /\ InFlight = {}
    /\ cache' = EmptyMap
    /\ fetched_keys' = 0
    /\ requested' = {}
    /\ rpc_ok' = TRUE
    /\ UNCHANGED <<locals, record, counting>>

\* ------------------------------------------------------------------ specifications
Next ==
    \/ \E c \in Callers, ks \in KeyLists : GetMultiple(c, ks) /\ UNCHANGED others
    \/ \E c \in Callers, k \in Keys : GetAccountHit(c, k) /\ UNCHANGED others
    \/ \E c \in Callers, k \in Keys : GetAccountMiss(c, k) /\ UNCHANGED others
    \/ \E c \in Callers : GetAccountFetched(c) /\ UNCHANGED others
    \/ \E c \in Callers : GetAccountFailed(c) /\ UNCHANGED others
    \/ \E c \in Callers, ks \in KeyLists : GetAccountsNoFetch(c, ks) /\ UNCHANGED others
    \/ \E c \in Callers, ks \in KeyLists : GetAccountsFetch(c, ks) /\ UNCHANGED others
    \/ \E c \in Callers : GetAccountsFetched(c) /\ UNCHANGED others
    \/ \E c \in Callers : GetAccountsFailed(c) /\ UNCHANGED others
    \/ Return /\ UNCHANGED others
    \/ ResetCache /\ UNCHANGED others

\* any number of tasks calling into one cache
Spec == Init /\ [][Next]_vars

\* calls issued one after another (every call is awaited before the next one
\* starts), with the fetched keys counted
InitSeq == InitCache /\ counting = TRUE /\ NoSearch /\ NoVenue

NextSeq ==
    \/ \E ks \in KeyLists : GetMultiple(Observed, ks) /\ UNCHANGED others
    \/ \E k \in Keys : GetAccountHit(Observed, k) /\ UNCHANGED others
    \/ \E k \in Keys : GetAccountMiss(Observed, k) /\ UNCHANGED others
    \/ GetAccountFetched(Observed) /\ UNCHANGED others
    \/ GetAccountFailed(Observed) /\ UNCHANGED others
    \/ \E ks \in KeyLists : GetAccountsNoFetch(Observed, ks) /\ UNCHANGED others
    \/ \E ks \in KeyLists : GetAccountsFetch(Observed, ks) /\ UNCHANGED others
    \/ GetAccountsFetched(Observed) /\ UNCHANGED others
    \/ GetAccountsFailed(Observed) /\ UNCHANGED others
    \/ Return /\ UNCHANGED others
    \/ ResetCache /\ UNCHANGED others

SpecSeq == InitSeq /\ [][NextSeq]_vars

\* ------------------------------------------------------------------ claims
O == Observed
Returned(name) == pc[O] = "done" /\ op = name
Min(a, b) == IF a <= b THEN a ELSE b

\* the answers of the remote call of Observed's call for the key k
FetchedFor(k) ==
    {response.val[j] : j \in {i \in 1..Min(Len(keys[O]), Len(response.val)) : keys[O][i] = k}}

\* C1: a successful get_accounts(K) returns Len(K) records, the i-th being the
\* record of K[i]: the one the remote call of this very call answered for K[i]
\* when K[i] was sent to it, the one the table held at the call otherwise.
C1_OrderPreserved ==
    (Returned("get_accounts") /\ ret.kind = "Ok") =>
        /\ Len(ret.val) = Len(pubkeys[O])
        /\ \A i \in 1..Len(pubkeys[O]) :
            LET k == pubkeys[O][i]
            IN IF k \in Range(keys[O])
               THEN ret.val[i] \in FetchedFor(k)
               ELSE k \in DOMAIN cache_at_call /\ ret.val[i] = cache_at_call[k]

\* a hit and a miss in one list, with different records, in this order
C1_Witness ==
    /\ Returned("get_accounts") /\ ret.kind = "Ok"
    /\ Len(pubkeys[O]) = 2
    /\ pubkeys[O][1] \in DOMAIN cache_at_call
    /\ pubkeys[O][1] \notin Range(keys[O])
    /\ keys[O] = <<pubkeys[O][2]>>
    /\ ret.val = <<"X", None>>

\* C2 (as claimed): when every key of K has an entry, Present or confirmed
\* absent, get_accounts(K) issues no remote call and returns the entries.
C2_AllResolvedNoRemoteCall ==
    (op = "get_accounts" /\ pc[O] # "idle"
        /\ Range(pubkeys[O]) \subseteq DOMAIN cache_at_call) =>
        /\ pc[O] = "done"
        /\ rpc_calls = 0
        /\ ret = Ok([i \in 1..Len(pubkeys[O]) |-> cache_at_call[pubkeys[O][i]]])

\* C3 (as claimed): the keys get_accounts(K) sends to the remote batch call are
\* the distinct keys of K without an entry, each once.
C3_SendsDistinctUnresolved ==
    (op = "get_accounts" /\ pc[O] # "idle") =>
        /\ Range(keys[O]) = Range(pubkeys[O]) \ DOMAIN cache_at_call
        /\ Len(keys[O]) = Cardinality(Range(keys[O]))
        /\ rpc_calls = (IF keys[O] = <<>> THEN 0 ELSE 1)

\* C4: get_account(k) for a key with an entry, Present or confirmed absent,
\* returns that entry at once: no remote call, no change of the table.
C4_HitReturnsEntry ==
    (op = "get_account" /\ pc[O] # "idle"
        /\ pubkeys[O][1] \in DOMAIN cache_at_call) =>
        /\ pc[O] = "done"
        /\ ret = Ok(<<cache_at_call[pubkeys[O][1]]>>)
        /\ rpc_calls = 0
        /\ changed = {}

\* get_account returned the confirmed-absent entry of its key
C4_Witness ==
    /\ Returned("get_account")
    /\ pubkeys[O][1] \in DOMAIN cache_at_call
    /\ cache_at_call[pubkeys[O][1]] = None
    /\ ret = Ok(<<None>>)

\* C5 (as claimed): get_account(k) for a key without an entry makes one remote
\* fetch and records the outcome; when the remote reports the account as absent
\* it returns Absent, not an error, and k has an entry.
C5_MissRecordsOutcome ==
    (Returned("get_account") /\ pubkeys[O][1] \notin DOMAIN cache_at_call) =>
        /\ rpc_calls = 1
        /\ response.kind = "Ok" => ret = response
        /\ response.kind = "AccountNotFound" =>
            ret = Ok(<<None>>) /\ pubkeys[O][1] \in changed

\* C6: a call whose remote call failed returns the error and has not created or
\* altered any entry of the table.
C6_FailureLeavesTable ==
    (pc[O] = "done" /\ response.kind \in RpcErrors) =>
        /\ ret = Err
        /\ changed = {}

\* a batch of two keys failed
C6_Witness ==
    /\ Returned("get_accounts")
    /\ response.kind = "RequestFailed"
    /\ Len(keys[O]) = 2
    /\ ret = Err

\* C7: a call issues at most one remote call; once the remote call has failed
\* the call is over and has returned the error.
C7_OneAttempt ==
    /\ rpc_calls <= 1
    /\ response.kind \in RpcErrors =>
        pc[O] = "done" /\ ret = Err /\ rpc_calls = 1

\* get_account and its one failed fetch
C7_Witness ==
    /\ Returned("get_account")
    /\ response.kind = "RequestFailed"
    /\ rpc_calls = 1

\* C8 (as claimed): over get_accounts calls issued one after another since the
\* table was empty, with no failing remote call, the keys sent to the remote
\* are at most the distinct keys requested.
C8_FetchedAtMostDistinct ==
    rpc_ok => fetched_keys <= Cardinality(requested)

\* C9: no step but reset_cache removes an entry, and reset_cache removes all.
C9_GrowsUntilReset ==
    /\ [][ResetCache \/ (DOMAIN cache \subseteq DOMAIN cache')]_vars
    /\ [][ResetCache => \A ks \in KeyLists :
            get_multiple(cache', ks) = [i \in 1..Len(ks) |-> None]]_vars

\* the entries Observed's call created are gone: a reset removed them
C9_Witness ==
    /\ pc[O] = "done"
    /\ changed # {}
    /\ cache = EmptyMap

\* the table a completing call of Observed leaves: the keys the answer covers
\* hold the answer, every other entry is as it was
LastWriteWins ==
    LET n == Min(Len(keys[O]), Len(response'.val))
        covered == {keys[O][j] : j \in 1..n}
    IN \A k \in Keys :
        IF k \in covered
        THEN k \in DOMAIN cache'
             /\ \E j \in 1..n : keys[O][j] = k /\ cache'[k] = response'.val[j]
        ELSE /\ k \in DOMAIN cache' <=> k \in DOMAIN cache
             /\ k \in DOMAIN cache => cache'[k] = cache[k]

\* C10: concurrent misses on one key are not coalesced (each call issues its own
\* remote call), a suspended call can complete whatever the other callers are
\* doing (it waits for nothing but its own answer), it returns the answer of
\* its own remote call, and when it completes the entries of the keys it fetched
\* are what it fetched, whatever another caller wrote meanwhile; other entries
\* are untouched.
C10_RacingMisses ==
    /\ [](/\ (op = "get_account" /\ pc[O] # "idle"
                /\ pubkeys[O][1] \notin DOMAIN cache_at_call) => rpc_calls = 1
          /\ (op = "get_accounts" /\ pc[O] # "idle"
                /\ ~(Range(pubkeys[O]) \subseteq DOMAIN cache_at_call)) => rpc_calls = 1
          /\ pc[O] = "done" => ENABLED Return
          /\ \A c \in Callers : (pc[c] = "await_one" /\ pc[O] # "done") =>
                ENABLED GetAccountFetched(c)
          /\ \A c \in Callers : (pc[c] = "await_many" /\ pc[O] # "done") =>
                ENABLED GetAccountsFetched(c)
          /\ (Returned("get_account") /\ response.kind = "Ok") => ret = response
          /\ (Returned("get_accounts") /\ response.kind = "Ok"
                /\ Len(response.val) = Len(keys[O])) => ret.kind = "Ok")
    /\ [][(pc[O] \in {"await_one", "await_many"} /\ pc'[O] = "done"
            /\ response'.kind = "Ok") => LastWriteWins]_vars

\* Observed missed on a key, another caller wrote an entry for it while
\* Observed's fetch was pending, and Observed's answer replaced that entry
C10_Witness ==
    /\ pc[O] = "done"
    /\ response.kind = "Ok"
    /\ \E k \in replaced : k \notin DOMAIN cache_at_call

\* the step is the completion of caller c's pending fetch
Completes(c) ==
    /\ pc[c] \in {"await_one", "await_many"}
    /\ pc'[c] \notin {"await_one", "await_many"}

\* C33: a step that changes the table is reset_cache or the completion of one
\* caller's fetch, and then only entries of keys that this caller requested and
\* sent to the remote change, whatever the other callers have pending; a call
\* that issued no remote call (a hit, get_multiple) has changed nothing, and
\* get_account(k) has changed at most the entry of k.
C33_WritesOnlyFetchedKeys ==
    /\ [][\/ cache' = cache
          \/ ResetCache
          \/ \E c \in Callers :
                /\ Completes(c)
                /\ Changed(cache, cache') \subseteq Range(keys[c]) \cap Range(pubkeys[c])]_vars
    /\ [](pc[O] # "idle" =>
            /\ changed \subseteq Range(keys[O])
            /\ rpc_calls = 0 => changed = {}
            /\ op = "get_multiple" => changed = {}
            /\ op = "get_account" => changed \subseteq {pubkeys[O][1]})

\* get_accounts returned after a hit and a miss, having written the entry of
\* the key that missed, while another caller's batch is pending
C33_Witness ==
    /\ Returned("get_accounts")
    /\ Len(pubkeys[O]) = 2
    /\ Len(keys[O]) = 1
    /\ changed = Range(keys[O])
    /\ \E c \in Callers \ {O} : pc[c] = "await_many"

\* C34: reset_cache runs only when no get_account or get_accounts of the cache
\* is pending and leaves the table empty; so while a call is pending, the
\* entries it found at its start are still there, and what a pending call
\* writes on completion goes into a table no reset has emptied since the call
\* started.
C34_ResetIsExclusive ==
    /\ [][ResetCache => (InFlight = {} /\ cache' = EmptyMap /\ InFlight' = {})]_vars
    /\ [](pc[O] \in {"await_one", "await_many"} =>
            DOMAIN cache_at_call \subseteq DOMAIN cache)

\* the table is empty again after a fetch of Observed that filled it, and
\* nobody has a fetch pending
C34_Witness ==
    /\ Returned("get_account")
    /\ response.kind = "Ok"
    /\ pubkeys[O][1] \in changed
    /\ cache = EmptyMap
    /\ InFlight = {}

\* C35 (as claimed): whatever the remote batch call answers, a list shorter
\* than the keys sent included, get_accounts returns Ok with one record per
\* requested key or Err; it never aborts.
C35_NeverAborts ==
    Returned("get_accounts") =>
        \/ ret.kind = "Ok" /\ Len(ret.val) = Len(pubkeys[O])
        \/ ret.kind = "Err"

\* ------------------------------------------------------------------ boundary search
\* src/src/trading_venue/bounds.rs.  Amounts are Width-bit unsigned integers.

MAXU == 2^Width - 1          \* u64::MAX
SCALING_FACTOR == 2
Tolerance == 100             \* the bracket width at which the refinements stop

\* the amounts at which the pricing functions checked change their behaviour
Marks ==
    {1, 2, 3, 5, 100, 129, 200, 256, 257, 300,
     2^(Width - 1), 2^(Width - 1) + 1, 2^(Width - 1) + 150, MAXU - 100, MAXU - 1, MAXU}

\* stretches inside the valid range where the output drops to zero
Holes == {<<>>, <<3, 6>>, <<300, 400>>}

\* The pricing functions f: amount -> Result<QuoteResult, TradingVenueError>
\* that are checked.  The output grows from the amount a on; below a the
\* function gives a zero output or an error, above b it reports insufficient
\* liquidity or an error.  With b < a the function is valid nowhere.
PricingFunctions ==
    {[a |-> a, b |-> b, below |-> lo, above |-> hi, hole |-> h] :
        a \in Marks, b \in Marks \cup {0},
        lo \in {"zero", "err"}, hi \in {"nel", "err"}, h \in Holes}

QuoteErr == [kind |-> "Err"]
QuoteOk(out, nel) ==
    [kind |-> "Ok", expected_output |-> out, not_enough_liquidity |-> nel]

InHole(fn, x) == fn.hole # <<>> /\ fn.hole[1] <= x /\ x <= fn.hole[2]

\* f(x)
Quote(fn, x) ==
    IF x > fn.b
    THEN IF fn.above = "err" THEN QuoteErr
         ELSE QuoteOk(IF x < fn.a THEN 0 ELSE x - fn.a + 1, TRUE)
    ELSE IF x < fn.a
    THEN IF fn.below = "err" THEN QuoteErr ELSE QuoteOk(0, FALSE)
    ELSE IF InHole(fn, x) THEN QuoteOk(0, FALSE)
    ELSE QuoteOk(x - fn.a + 1, FALSE)

\* bounds.rs valid_quote
valid_quote(quote) == ~(quote.not_enough_liquidity \/ quote.expected_output = 0)

\* a multiplication that does not saturate
mul_unchecked(x, y) == x * y

\* u64::saturating_mul
saturating_mul(x, y) == IF x * y > MAXU THEN MAXU ELSE x * y

NoResult == [kind |-> "none"]

\* find_boundaries_coarse on entry: lower_low = 0, lower_high = 1
SearchStart ==
    [phase |-> "coarse_lower", lower_low |-> 0, lower_high |-> 1,
     upper_low |-> 0, upper_high |-> 0, low |-> 0, high |-> 0,
     lower_bound |-> 0, result |-> NoResult]

\* a phase 1 that takes an error of f for the start of the valid region
coarse_lower_stopping_at_error(fn, s) ==
    LET q == Quote(fn, s.lower_high)
        keep == IF q.kind = "Ok" THEN ~valid_quote(q) ELSE FALSE
        lower_low == s.lower_high
        lower_high == saturating_mul(s.lower_high, SCALING_FACTOR)
    IN IF ~keep
       THEN [s EXCEPT !.phase = "coarse_between"]
       ELSE IF lower_high <= lower_low \/ lower_high = MAXU
       THEN [s EXCEPT !.lower_low = lower_low, !.lower_high = MAXU,
                      !.phase = "coarse_between"]
       ELSE [s EXCEPT !.lower_low = lower_low, !.lower_high = lower_high]

\* find_boundaries_coarse, phase 1: one evaluation of the loop condition and,
\* when it says "keep searching", one run of the loop body
coarse_lower(fn, s) ==
    LET q == Quote(fn, s.lower_high)
        keep == IF q.kind = "Ok" THEN ~valid_quote(q) ELSE TRUE
        lower_low == s.lower_high
        lower_high == saturating_mul(s.lower_high, SCALING_FACTOR)
    IN IF ~keep
       THEN [s EXCEPT !.phase = "coarse_between"]
       ELSE IF lower_high <= lower_low \/ lower_high = MAXU
       THEN [s EXCEPT !.lower_low = lower_low, !.lower_high = MAXU,
                      !.phase = "coarse_between"]
       ELSE [s EXCEPT !.lower_low = lower_low, !.lower_high = lower_high]

\* a phase 2 that starts over from phase 1's first amount instead of lower_high
coarse_between_from_start(s) ==
    LET upper_low == SearchStart.lower_high
        upper_high == saturating_mul(upper_low, SCALING_FACTOR)
    IN IF upper_high <= upper_low
       THEN [s EXCEPT !.upper_low = upper_low, !.upper_high = upper_low,
                      !.phase = "coarse_done"]
       ELSE [s EXCEPT !.upper_low = upper_low, !.upper_high = upper_high,
                      !.phase = "coarse_upper"]

\* a phase 2 whose first doubling wraps around and is not checked
coarse_between_wrapping(s) ==
    LET upper_low == s.lower_high
        upper_high == (upper_low * SCALING_FACTOR) % (MAXU + 1)
    IN [s EXCEPT !.upper_low = upper_low, !.upper_high = upper_high,
                 !.phase = "coarse_upper"]

\* find_boundaries_coarse, the start of phase 2
coarse_between(s) ==
    LET upper_low == s.lower_high
        upper_high == saturating_mul(upper_low, SCALING_FACTOR)
    IN IF upper_high <= upper_low
       THEN [s EXCEPT !.upper_low = upper_low, !.upper_high = upper_low,
                      !.phase = "coarse_done"]
       ELSE [s EXCEPT !.upper_low = upper_low, !.upper_high = upper_high,
                      !.phase = "coarse_upper"]

\* find_boundaries_coarse, phase 2: one `while let Ok(result) = f(upper_high)`
\* test and, when it passes, one run of the loop body
coarse_upper(fn, s) ==
    LET q == Quote(fn, s.upper_high)
        upper_low == s.upper_high
        upper_high == saturating_mul(s.upper_high, SCALING_FACTOR)
    IN IF q.kind # "Ok"
       THEN [s EXCEPT !.phase = "coarse_done"]
       ELSE IF ~valid_quote(q)
       THEN [s EXCEPT !.phase = "coarse_done"]
       ELSE IF upper_high <= upper_low \/ upper_high = MAXU
       THEN [s EXCEPT !.upper_low = upper_low, !.upper_high = MAXU,
                      !.phase = "coarse_done"]
       ELSE [s EXCEPT !.upper_low = upper_low, !.upper_high = upper_high]

\* a find_boundaries without the `lower_high == u64::MAX` return
coarse_checked_no_max_check(s) ==
    IF s.lower_low = s.upper_high
    THEN [s EXCEPT !.phase = "done", !.result = [kind |-> "BoundarySearchFailed"]]
    ELSE [s EXCEPT !.phase = "refine_lower", !.low = s.lower_low, !.high = s.lower_high]

\* find_boundaries after the coarse search: the two error returns, or on to
\* refine_lower(f, lower_low, lower_high)
coarse_checked(s) ==
    IF s.lower_low = s.upper_high
    THEN [s EXCEPT !.phase = "done", !.result = [kind |-> "BoundarySearchFailed"]]
    ELSE IF s.lower_high = MAXU
    THEN [s EXCEPT !.phase = "done", !.result = [kind |-> "NoQuotableValue"]]
    ELSE [s EXCEPT !.phase = "refine_lower", !.low = s.lower_low, !.high = s.lower_high]

\* a refine_lower that returns the error of f(mid) (`f(mid)?`)
refine_lower_propagating(fn, s) ==
    IF s.high - s.low > Tolerance
    THEN LET mid == (s.high \div 2) + (s.low \div 2)
             q == Quote(fn, mid)
         IN IF q.kind # "Ok"
            THEN [s EXCEPT !.phase = "done", !.result = [kind |-> "QuoteError"]]
            ELSE IF valid_quote(q)
            THEN [s EXCEPT !.high = mid]
            ELSE [s EXCEPT !.low = mid]
    ELSE [s EXCEPT !.lower_bound = s.high, !.phase = "refine_upper",
                   !.low = s.upper_low, !.high = s.upper_high]

\* a refine_lower that does not move low to a midpoint where f is invalid
refine_lower_keeping_low(fn, s) ==
    IF s.high - s.low > Tolerance
    THEN LET mid == (s.high \div 2) + (s.low \div 2)
             q == Quote(fn, mid)
         IN IF q.kind = "Ok" /\ valid_quote(q)
            THEN [s EXCEPT !.high = mid]
            ELSE s
    ELSE [s EXCEPT !.lower_bound = s.high, !.phase = "refine_upper",
                   !.low = s.upper_low, !.high = s.upper_high]

\* refine_lower: one test of `(high - low) > 100` and one run of the loop body,
\* or `Ok(high)` and on to refine_upper(f, upper_low, upper_high).  (The quotes
\* of low and high that refine_lower and refine_upper take on entry are only
\* logged.)
refine_lower(fn, s) ==
    IF s.high - s.low > Tolerance
    THEN LET mid == (s.high \div 2) + (s.low \div 2)
             q == Quote(fn, mid)
         IN IF q.kind = "Ok" /\ valid_quote(q)
            THEN [s EXCEPT !.high = mid]
            ELSE [s EXCEPT !.low = mid]
    ELSE [s EXCEPT !.lower_bound = s.high, !.phase = "refine_upper",
                   !.low = s.upper_low, !.high = s.upper_high]

\* a refine_upper whose midpoint is (high + low) / 2 with a sum that wraps
refine_upper_wrapping_mid(fn, s) ==
    IF s.high - s.low > Tolerance
    THEN LET mid == ((s.high + s.low) % (MAXU + 1)) \div 2
             q == Quote(fn, mid)
         IN IF q.kind = "Ok" /\ valid_quote(q)
            THEN [s EXCEPT !.low = mid]
            ELSE [s EXCEPT !.high = mid]
    ELSE [s EXCEPT !.phase = "done",
                   !.result = [kind |-> "Ok", lower_bound |-> s.lower_bound,
                               upper_bound |-> s.low]]

\* a refine_upper that returns the upper end of its bracket
refine_upper_returning_high(fn, s) ==
    IF s.high - s.low > Tolerance
    THEN LET mid == (s.high \div 2) + (s.low \div 2)
             q == Quote(fn, mid)
         IN IF q.kind = "Ok" /\ valid_quote(q)
            THEN [s EXCEPT !.low = mid]
            ELSE [s EXCEPT !.high = mid]
    ELSE [s EXCEPT !.phase = "done",
                   !.result = [kind |-> "Ok", lower_bound |-> s.lower_bound,
                               upper_bound |-> s.high]]

\* refine_upper: one test of `(high - low) > 100` and one run of the loop body,
\* or `Ok(low)` and find_boundaries' `Ok((lower_bound, upper_bound))`
refine_upper(fn, s) ==
    IF s.high - s.low > Tolerance
    THEN LET mid == (s.high \div 2) + (s.low \div 2)
             q == Quote(fn, mid)
         IN IF q.kind = "Ok" /\ valid_quote(q)
            THEN [s EXCEPT !.low = mid]
            ELSE [s EXCEPT !.high = mid]
    ELSE [s EXCEPT !.phase = "done",
                   !.result = [kind |-> "Ok", lower_bound |-> s.lower_bound,
                               upper_bound |-> s.low]]

\* find_boundaries(f) is called
InitBounds ==
    /\ InitCache /\ counting = FALSE /\ NoVenue
    /\ f \in PricingFunctions
    /\ search = SearchStart

CoarseLower ==
    /\ search.phase = "coarse_lower"
    /\ search' = coarse_lower(f, search)
    /\ UNCHANGED <<f, cacheVars, venueVars>>

CoarseBetween ==
    /\ search.phase = "coarse_between"
    /\ search' = coarse_between(search)
    /\ UNCHANGED <<f, cacheVars, venueVars>>

CoarseUpper ==
    /\ search.phase = "coarse_upper"
    /\ search' = coarse_upper(f, search)
    /\ UNCHANGED <<f, cacheVars, venueVars>>

CoarseChecked ==
    /\ search.phase = "coarse_done"
    /\ search' = coarse_checked(search)
    /\ UNCHANGED <<f, cacheVars, venueVars>>

RefineLower ==
    /\ search.phase = "refine_lower"
    /\ search' = refine_lower(f, search)
    /\ UNCHANGED <<f, cacheVars, venueVars>>

RefineUpper ==
    /\ search.phase = "refine_upper"
    /\ search' = refine_upper(f, search)
    /\ UNCHANGED <<f, cacheVars, venueVars>>

NextBounds ==
    \/ CoarseLower
    \/ CoarseBetween
    \/ CoarseUpper
    \/ CoarseChecked
    \/ RefineLower
    \/ RefineUpper

SpecBounds == InitBounds /\ [][NextBounds]_vars

\* find_boundaries is straight-line code running in its caller's thread: a
\* step that can be taken is taken
SpecBoundsFair == InitBounds /\ [][NextBounds]_vars /\ WF_vars(NextBounds)

\* find_boundaries of bounds.rs run from its call to its return
SearchStep(fn, s) ==
    CASE s.phase = "coarse_lower" -> coarse_lower(fn, s)
      [] s.phase = "coarse_between" -> coarse_between(s)
      [] s.phase = "coarse_upper" -> coarse_upper(fn, s)
      [] s.phase = "coarse_done" -> coarse_checked(s)
      [] s.phase = "refine_lower" -> refine_lower(fn, s)
      [] s.phase = "refine_upper" -> refine_upper(fn, s)

RECURSIVE SearchFrom(_, _)
SearchFrom(fn, s) ==
    IF s.phase = "done" THEN s.result ELSE SearchFrom(fn, SearchStep(fn, s))

find_boundaries(fn) == SearchFrom(fn, SearchStart)

\* ------------------------------------------------------------------ claims on the search
Valid(fn, x) == LET q == Quote(fn, x) IN q.kind = "Ok" /\ valid_quote(q)
Found == search.phase = "done" /\ search.result.kind = "Ok"
lo == search.result.lower_bound
hi == search.result.upper_bound
Abs(x) == IF x < 0 THEN 0 - x ELSE x

\* f is valid exactly on fn.a .. fn.b
IntervalFunction(fn) == fn.hole = <<>> /\ 1 <= fn.a /\ fn.a <= fn.b

\* the outputs f gives never decrease as the amount grows
MonotoneIncreasing(fn) ==
    \A x \in 0..(MAXU - 1) :
        LET q1 == Quote(fn, x)
            q2 == Quote(fn, x + 1)
        IN (q1.kind = "Ok" /\ q2.kind = "Ok") => q1.expected_output <= q2.expected_output

AlwaysInvalid(fn) == \A x \in 0..MAXU : ~Valid(fn, x)

\* f with every error replaced by an invalid quote
ErrAsInvalid(fn) == [fn EXCEPT !.below = "zero", !.above = "nel"]

\* C11 (as claimed): when find_boundaries returns Ok((lower_bound, upper_bound)),
\* f is valid at every amount of lower_bound..upper_bound and invalid at every
\* amount below lower_bound and at every amount above upper_bound.
C11_ExactInterval ==
    Found =>
        /\ \A x \in lo..hi : Valid(f, x)
        /\ \A x \in 0..(lo - 1) : ~Valid(f, x)
        /\ \A x \in (hi + 1)..MAXU : ~Valid(f, x)

\* C12 (as claimed): for f valid exactly on a..b, 1 <= a <= b, find_boundaries
\* returns Ok((lo, hi)) with |lo - a| <= 100 and |hi - b| <= 100.
C12_IntervalWithinTolerance ==
    (search.phase = "done" /\ IntervalFunction(f)) =>
        /\ search.result.kind = "Ok"
        /\ Abs(lo - f.a) <= Tolerance
        /\ Abs(hi - f.b) <= Tolerance

C14_EndpointsValid ==
    Found =>
        /\ Quote(f, lo).kind = "Ok"
        /\ ~Quote(f, lo).not_enough_liquidity /\ Quote(f, lo).expected_output > 0
        /\ Quote(f, hi).kind = "Ok"
        /\ ~Quote(f, hi).not_enough_liquidity /\ Quote(f, hi).expected_output > 0

\* both refinements moved their end of the bracket
C14_Witness ==
    /\ Found
    /\ lo < search.lower_high
    /\ hi > search.upper_low

\* C15: for an f that is invalid or errors at every amount, find_boundaries
\* returns BoundarySearchFailed or NoQuotableValue, never Ok.
C15_AlwaysInvalidIsAnError ==
    (search.phase = "done" /\ AlwaysInvalid(f)) =>
        search.result.kind \in {"BoundarySearchFailed", "NoQuotableValue"}

\* the search of a function that errors at every amount is over
C15_Witness ==
    /\ search.phase = "done"
    /\ AlwaysInvalid(f)
    /\ f.below = "err" /\ f.above = "err"
    /\ search.result.kind = "NoQuotableValue"

PowersOfTwo == {2^k : k \in 0..(Width - 1)}

Mid(s) == (s.high \div 2) + (s.low \div 2)

\* C27: find_boundaries_coarse returns lower_low < lower_high <= upper_low <=
\* upper_high, and find_boundaries never returns BoundarySearchFailed.
C27_CoarseOrdered ==
    /\ search.phase = "coarse_done" =>
        /\ search.lower_low < search.lower_high
        /\ search.lower_high <= search.upper_low
        /\ search.upper_low <= search.upper_high
    /\ search.phase = "done" => search.result.kind # "BoundarySearchFailed"

\* the coarse search has returned with its last three amounts equal
C27_Witness ==
    /\ search.phase = "coarse_done"
    /\ search.lower_high = search.upper_low
    /\ search.upper_low = search.upper_high

C29_BracketInvariant ==
    /\ search.phase = "refine_lower" =>
        /\ search.low < search.high
        /\ ~Valid(f, search.low) /\ Valid(f, search.high)
        /\ IF search.high - search.low > Tolerance
           THEN refine_lower(f, search).phase = "refine_lower"
           ELSE refine_lower(f, search).lower_bound = search.high
    /\ search.phase = "refine_upper" =>
        /\ search.low < search.high
        /\ Valid(f, search.low) /\ ~Valid(f, search.high)
        /\ IF search.high - search.low > Tolerance
           THEN refine_upper(f, search).phase = "refine_upper"
           ELSE refine_upper(f, search).result.upper_bound = search.low

\* C30: every amount find_boundaries computes is within 0..u64::MAX: the
\* doublings, the midpoint (which is at most high), and high - low, which is
\* taken with low <= high.
C30_NoOverflow ==
    /\ \A x \in {search.lower_low, search.lower_high, search.upper_low,
                   search.upper_high, search.low, search.high, search.lower_bound} :
            0 <= x /\ x <= MAXU
    /\ search.phase \in {"refine_lower", "refine_upper"} =>
        /\ search.low <= search.high
        /\ search.high - search.low > Tolerance =>
            (search.low <= Mid(search) /\ Mid(search) <= search.high)

\* a refinement at work on a bracket that the clamp closed at the domain maximum
C30_Witness ==
    /\ search.phase = "refine_upper"
    /\ search.high = MAXU
    /\ search.high - search.low > Tolerance

\* the loops of the search, and whether the step at s evaluates f
LoopPhases == {"coarse_lower", "coarse_upper", "refine_lower", "refine_upper"}
Probes(s) ==
    \/ s.phase \in {"coarse_lower", "coarse_upper"}
    \/ s.phase \in {"refine_lower", "refine_upper"} /\ s.high - s.low > Tolerance

\* the loop s stands in is left after at most n more evaluations of f
RECURSIVE LeavesWithin(_, _, _)
LeavesWithin(fn, s, n) ==
    LET next == SearchStep(fn, s)
    IN IF ~Probes(s) THEN TRUE
       ELSE IF n = 0 THEN FALSE
       ELSE next.phase # s.phase \/ LeavesWithin(fn, next, n - 1)

\* one more turn of a loop brings it closer to its end
LoopProgress ==
    /\ (search.phase = "coarse_lower" /\ search'.phase = "coarse_lower") =>
        (search.lower_high < search'.lower_high /\ search'.lower_high < MAXU)
    /\ (search.phase = "coarse_upper" /\ search'.phase = "coarse_upper") =>
        (search.upper_high < search'.upper_high /\ search'.upper_high < MAXU)
    /\ (search.phase \in {"refine_lower", "refine_upper"} /\ search'.phase = search.phase) =>
        search'.high - search'.low < search.high - search.low

\* C31: find_boundaries returns for every f: a turn of a coarse loop raises its
\* high, a turn of a refinement narrows high - low, each loop evaluates f at most
\* Width times (the bits of an amount), and the search reaches its return.
C31_Terminates ==
    /\ [](search.phase \in LoopPhases => LeavesWithin(f, search, Width))
    /\ [][LoopProgress]_vars
    /\ <>(search.phase = "done")

\* refine_upper is about to return from a bracket that the coarse search
\* closed at the domain maximum and that took midpoints to narrow
C31_Witness ==
    /\ search.phase = "refine_upper"
    /\ search.high - search.low <= Tolerance
    /\ search.upper_high = MAXU
    /\ search.upper_high - search.upper_low > 2 * Tolerance

\* the turn of a refinement loop from s to n moved one end of the bracket to
\* an amount strictly inside it: the midpoint it passed to f
ProbedInside(s, n) ==
    \/ n.low = s.low /\ s.low < n.high /\ n.high < s.high
    \/ n.high = s.high /\ s.low < n.low /\ n.low < s.high

\* C32: refine_lower works inside the bracket (lower_low, lower_high) it was
\* called with and refine_upper inside (upper_low, upper_high), the amounts they
\* quote on entry are the ends of that bracket, every midpoint they pass to f
\* lies strictly between the current low and high, and all of it lies inside
\* lower_low..upper_high, the range the coarse search returned.
C32_ProbesInsideBracket ==
    /\ search.phase = "refine_lower" =>
        /\ search.lower_low <= search.low /\ search.low <= search.high
        /\ search.high <= search.lower_high
        /\ search.lower_high <= search.upper_high
        /\ search.high - search.low > Tolerance =>
            ProbedInside(search, refine_lower(f, search))
        /\ search.high - search.low <= Tolerance =>
            /\ refine_lower(f, search).low = search.upper_low
            /\ refine_lower(f, search).high = search.upper_high
    /\ search.phase = "refine_upper" =>
        /\ search.upper_low <= search.low /\ search.low <= search.high
        /\ search.high <= search.upper_high
        /\ search.lower_low <= search.upper_low
        /\ search.high - search.low > Tolerance =>
            ProbedInside(search, refine_upper(f, search))
    /\ search.phase = "coarse_done" /\ coarse_checked(search).phase = "refine_lower" =>
        /\ coarse_checked(search).low = search.lower_low
        /\ coarse_checked(search).high = search.lower_high

\* refine_upper, after a midpoint of its own, takes one more midpoint in a
\* bracket that reaches up to the domain maximum
C32_Witness ==
    /\ search.phase = "refine_upper"
    /\ search.high = MAXU
    /\ search.upper_low < search.low
    /\ search.high - search.low > Tolerance

\* ------------------------------------------------------------------ venues
\* src/src/example/mod.rs (RaydiumAmmVenue) and src/src/oxedium/amm.rs
\* (OxediumAmmVenue).  An account is looked at through what the venue's parsing
\* makes of its data.

VenueErr(e) == [kind |-> "Err", error |-> e]      \* Err(TradingVenueError::e)
NoCall == [op |-> "none"]

\* what cache.get_accounts(&pubkeys) hands to update_state: the accounts, an
\* error, or the panic of its reassembly
AccountsResults(lists) ==
    {[kind |-> "Ok", val |-> l] : l \in lists}
        \cup {[kind |-> "Err", val |-> <<>>], [kind |-> "Panic", val |-> <<>>]}

\* ---- RaydiumAmmVenue

\* the AMM pool account: data that is no AmmInfo, or an AmmInfo with its status
\* (one with orderbook permission, one without, one that is no AmmStatus),
\* whether calc_total_without_take_pnl_no_orderbook succeeds on it, and its fees
PoolAccounts ==
    {[parse |-> "bad", status |-> "swap", calc |-> "ok",
      swap_fee_numerator |-> 0, swap_fee_denominator |-> 0],
     [parse |-> "ok", status |-> "orderbook", calc |-> "ok",
      swap_fee_numerator |-> 1, swap_fee_denominator |-> 4],
     [parse |-> "ok", status |-> "unknown", calc |-> "ok",
      swap_fee_numerator |-> 1, swap_fee_denominator |-> 4],
     [parse |-> "ok", status |-> "swap", calc |-> "fails",
      swap_fee_numerator |-> 1, swap_fee_denominator |-> 4],
     [parse |-> "ok", status |-> "swap", calc |-> "ok",
      swap_fee_numerator |-> 1, swap_fee_denominator |-> 4]}

\* a vault account: data shorter than 72 bytes, data of 72 bytes or more that
\* is no token account, or a token account; amount is what bytes 64..72 hold
VaultAccounts ==
    {[parse |-> "short", amount |-> 0], [parse |-> "bad", amount |-> 7],
     [parse |-> "ok", amount |-> 5]}

\* a mint account: data that is no mint, or a mint
MintAccounts == {[parse |-> "bad", decimals |-> 0], [parse |-> "ok", decimals |-> 6]}

\* Option<Account>: None is the account with nothing to parse
NoAccount == [parse |-> "absent"]
Option(S) == S \cup {NoAccount}

\* Option<T> elsewhere: None is <<>>, Some(x) is <<x>>
Some(x) == <<x>>

\* the five accounts of update_state's `accounts_pubkeys`, in its order
RaydiumAccounts ==
    [amm_pool : Option(PoolAccounts), amm_pc_vault : Option(VaultAccounts),
     amm_coin_vault : Option(VaultAccounts), mint0 : Option(MintAccounts),
     mint1 : Option(MintAccounts)]

\* RaydiumAmmVenue::from_account
RaydiumNew ==
    [kind |-> "raydium", found_all_pubkeys |-> FALSE, calculate_result |-> <<>>,
     pc_balance |-> 0, coin_balance |-> 0, token_info |-> <<>>]

\* calculate_pool_vault_amounts_from_accounts
calculate_pool_vault_amounts_from_accounts(amm_account, amm_pc_vault_account, amm_coin_vault_account) ==
    IF amm_account = NoAccount THEN VenueErr("MissingState")
    ELSE IF amm_account.parse # "ok" THEN VenueErr("DeserializationFailed")
    ELSE IF amm_pc_vault_account = NoAccount THEN VenueErr("MissingState")
    ELSE IF amm_pc_vault_account.parse # "ok" THEN VenueErr("DeserializationFailed")
    ELSE IF amm_coin_vault_account = NoAccount THEN VenueErr("MissingState")
    ELSE IF amm_coin_vault_account.parse # "ok" THEN VenueErr("DeserializationFailed")
    ELSE IF amm_account.status = "unknown" THEN Panic
    ELSE IF amm_account.status = "orderbook" THEN VenueErr("AmmMethodError")
    ELSE IF amm_account.calc # "ok" THEN VenueErr("AmmMethodError")
    ELSE Ok([pool_pc_vault_amount |-> amm_pc_vault_account.amount,
             pool_coin_vault_amount |-> amm_coin_vault_account.amount,
             swap_fee_numerator |-> amm_account.swap_fee_numerator,
             swap_fee_denominator |-> amm_account.swap_fee_denominator])

\* venue_update_state_step_2, from the token_info part on
step_2_token_info(v, mint0, mint1) ==
    IF mint0 # NoAccount /\ mint1 # NoAccount
    THEN IF mint0.parse # "ok" \/ mint1.parse # "ok"
         THEN [venue |-> v, ret |-> VenueErr("DeserializationFailed")]
         ELSE [venue |-> [v EXCEPT !.token_info = <<mint0.decimals, mint1.decimals>>],
               ret |-> Ok(<<>>)]
    ELSE [venue |-> v, ret |-> Ok(<<>>)]

\* venue_update_state_step_2, from the calculate_result part on
step_2_calculate(v, a) ==
    LET r == calculate_pool_vault_amounts_from_accounts(
                 a.amm_pool, a.amm_pc_vault, a.amm_coin_vault)
    IN IF r.kind = "Err"
       THEN [venue |-> v, ret |-> VenueErr("AmmMethodError")]
       ELSE IF r.kind # "Ok"
       THEN [venue |-> v, ret |-> r]
       ELSE step_2_token_info([v EXCEPT !.calculate_result = Some(r.val)], a.mint0, a.mint1)

\* venue_update_state_step_2, from the coin vault balance on; the range
\* [64..72] of data shorter than 72 bytes panics
step_2_coin_balance(v, a) ==
    IF a.amm_coin_vault = NoAccount THEN step_2_calculate(v, a)
    ELSE IF a.amm_coin_vault.parse = "short" THEN [venue |-> v, ret |-> Panic]
    ELSE step_2_calculate([v EXCEPT !.coin_balance = a.amm_coin_vault.amount], a)

\* RaydiumAmmVenue::venue_update_state_step_2
venue_update_state_step_2(v, a) ==
    IF a.amm_pc_vault = NoAccount THEN step_2_coin_balance(v, a)
    ELSE IF a.amm_pc_vault.parse = "short" THEN [venue |-> v, ret |-> Panic]
    ELSE step_2_coin_balance([v EXCEPT !.pc_balance = a.amm_pc_vault.amount], a)

\* an update_state that raises found_all_pubkeys before step 2 has succeeded
raydium_update_state_flag_first(v, accounts) ==
    IF accounts.kind = "Panic" THEN [venue |-> v, ret |-> Panic]
    ELSE IF accounts.kind = "Err" THEN [venue |-> v, ret |-> VenueErr("AccountCacheError")]
    ELSE LET s == venue_update_state_step_2(v, accounts.val)
         IN [venue |-> [s.venue EXCEPT !.found_all_pubkeys = TRUE], ret |-> s.ret]

\* an update_state that never raises found_all_pubkeys
raydium_update_state_without_flag(v, accounts) ==
    IF accounts.kind = "Panic" THEN [venue |-> v, ret |-> Panic]
    ELSE IF accounts.kind = "Err" THEN [venue |-> v, ret |-> VenueErr("AccountCacheError")]
    ELSE venue_update_state_step_2(v, accounts.val)

\* RaydiumAmmVenue::update_state, given what cache.get_accounts returned
raydium_update_state(v, accounts) ==
    IF accounts.kind = "Panic" THEN [venue |-> v, ret |-> Panic]
    ELSE IF accounts.kind = "Err" THEN [venue |-> v, ret |-> VenueErr("AccountCacheError")]
    ELSE LET s == venue_update_state_step_2(v, accounts.val)
         IN IF s.ret.kind = "Ok"
            THEN [venue |-> [s.venue EXCEPT !.found_all_pubkeys = TRUE], ret |-> Ok(<<>>)]
            ELSE s

\* ---- RaydiumAmmVenue::quote

Mints == {"coin", "pc", "other"}
QuoteAmounts == {0, 3}

\* QuoteRequest
QuoteRequests ==
    [input_mint : Mints, output_mint : Mints, amount : QuoteAmounts,
     swap_type : {"ExactIn", "ExactOut"}]

\* What the functions of example/raydium/math.rs answer in one quote:
\* checked_ceil_div (None or Some quotient), swap_token_amount_base_in (an error,
\* <<>>, or the amount) and swap_token_amount_base_out (the amount).
MathOutcomes ==
    [ceil_div : {<<>>, Some(0), Some(1)},
     base_in : {<<>>, Some(0), Some(4), Some(9)}, base_out : {2}]

TEN_THOUSAND == 10000

\* min_amount_with_slippage
min_amount_with_slippage(input_amount, slippage_bps) ==
    LET mult == IF TEN_THOUSAND >= slippage_bps THEN TEN_THOUSAND - slippage_bps ELSE 0
    IN (input_amount * mult) \div TEN_THOUSAND

\* max_amount_with_slippage: the product is taken in u128, and
\* `u64::try_from(quotient).expect(..)` panics on a quotient that does not fit
\* an amount.  (Basis points do not scale with the width of an amount: the sum
\* TEN_THOUSAND + slippage_bps is far from the overflow its `expect` guards.)
max_amount_with_slippage(input_amount, slippage_bps) ==
    LET quotient == (input_amount * (TEN_THOUSAND + slippage_bps)) \div TEN_THOUSAND
    IN IF quotient > MAXU THEN Panic ELSE Ok(quotient)

\* swap_exact_amount
swap_exact_amount(swap_fee_numerator, swap_fee_denominator, amount_specified, swap_base_in, math) ==
    IF swap_base_in
    THEN IF math.ceil_div = <<>> THEN VenueErr("MathError")
         ELSE LET swap_fee == math.ceil_div[1]
              IN IF swap_fee = 0 THEN VenueErr("MathError")
                 ELSE IF amount_specified < swap_fee THEN VenueErr("MathError")
                 ELSE IF math.base_in = <<>> THEN VenueErr("MathError")
                 ELSE Ok(math.base_in[1])
    ELSE IF swap_fee_denominator < swap_fee_numerator THEN VenueErr("MathError")
         ELSE IF math.ceil_div = <<>> THEN VenueErr("MathError")
         ELSE Ok(math.ceil_div[1])

\* a swap_with_slippage that does not compare the amount with the vault
swap_with_slippage_any_amount(pc_amount, coin_amount, pc_vault_amount, coin_vault_amount, swap_fee_numerator, swap_fee_denominator, swap_direction, amount_specified, swap_base_in, slippage_bps, math) ==
    IF swap_direction = "PC2Coin" /\ pc_amount + amount_specified > MAXU
    THEN VenueErr("MathError")
    ELSE IF swap_direction = "Coin2PC" /\ coin_amount + amount_specified > MAXU
    THEN VenueErr("MathError")
    ELSE LET r == swap_exact_amount(swap_fee_numerator, swap_fee_denominator,
                                    amount_specified, swap_base_in, math)
         IN IF r.kind # "Ok" THEN r
            ELSE IF swap_base_in
            THEN Ok(min_amount_with_slippage(r.val, slippage_bps))
            ELSE max_amount_with_slippage(r.val, slippage_bps)

\* swap_with_slippage
swap_with_slippage(pc_amount, coin_amount, pc_vault_amount, coin_vault_amount, swap_fee_numerator, swap_fee_denominator, swap_direction, amount_specified, swap_base_in, slippage_bps, math) ==
    IF swap_direction = "PC2Coin" /\ pc_amount + amount_specified > MAXU
    THEN VenueErr("MathError")
    ELSE IF swap_direction = "Coin2PC" /\ coin_amount + amount_specified > MAXU
    THEN VenueErr("MathError")
    ELSE LET r == swap_exact_amount(swap_fee_numerator, swap_fee_denominator,
                                    amount_specified, swap_base_in, math)
         IN IF r.kind # "Ok" THEN r
            ELSE LET adjusted ==
                         IF swap_base_in
                         THEN Ok(min_amount_with_slippage(r.val, slippage_bps))
                         ELSE max_amount_with_slippage(r.val, slippage_bps)
                     other_amount_threshold == adjusted.val
                 IN IF adjusted.kind # "Ok" THEN adjusted
                    ELSE IF \/ (swap_direction = "Coin2PC"
                                 /\ other_amount_threshold >= pc_vault_amount)
                            \/ (swap_direction = "PC2Coin"
                                 /\ other_amount_threshold >= coin_vault_amount)
                    THEN VenueErr("MathError")
                    ELSE Ok(other_amount_threshold)

\* RaydiumAmmVenue::quote
raydium_quote(v, request, math) ==
    IF v.calculate_result = <<>> THEN VenueErr("MissingState")
    ELSE IF ~(\/ request.input_mint = "pc" /\ request.output_mint = "coin"
              \/ request.input_mint = "coin" /\ request.output_mint = "pc")
    THEN VenueErr("InvalidMint")
    ELSE LET swap_direction ==
                 IF request.input_mint = "pc" THEN "PC2Coin" ELSE "Coin2PC"
             r == swap_with_slippage(
                      v.pc_balance, v.coin_balance,
                      v.calculate_result[1].pool_pc_vault_amount,
                      v.calculate_result[1].pool_coin_vault_amount,
                      v.calculate_result[1].swap_fee_numerator,
                      v.calculate_result[1].swap_fee_denominator,
                      swap_direction, request.amount,
                      request.swap_type = "ExactIn", 0, math)
         IN IF r.kind # "Ok" THEN r
            ELSE Ok(QuoteOk(r.val, FALSE))

\* ---- OxediumAmmVenue

\* MINT_ORACLES: the mints, in the order of the table, and the oracle of each
MINT_ORACLES == <<"m1", "m2">>
OxMints == Range(MINT_ORACLES)
oracle_for_mint(mint) == <<"oracle", mint>>

\* a vault account: data that is too small or no Vault, or a Vault
OxVaultAccounts ==
    {[parse |-> "bad"], [parse |-> "ok", current_liquidity |-> 5]}

\* an oracle account: data shorter than the 8-byte discriminator, data that is
\* no PriceUpdateV2, or a PriceUpdateV2
OxOracleAccounts == {[parse |-> "short"], [parse |-> "bad"], [parse |-> "ok", price |-> 2]}

\* the vault, mint and oracle account of one mint
OxTriples ==
    [vault : Option(OxVaultAccounts), mint : Option(MintAccounts),
     oracle : Option(OxOracleAccounts)]

\* the accounts get_accounts returns for get_required_pubkeys_for_update's keys;
\* the ones of the second mint are all there, all missing, or there with an
\* oracle too short, or with a vault that is no Vault
OxediumAccounts ==
    {[m \in OxMints |-> IF m = "m1" THEN t1 ELSE t2] :
        t1 \in OxTriples,
        t2 \in {t \in OxTriples :
                 \/ t.vault = NoAccount /\ t.mint = NoAccount /\ t.oracle = NoAccount
                 \/ /\ t.mint # NoAccount /\ t.mint.parse = "ok"
                    /\ t.vault # NoAccount /\ t.oracle # NoAccount
                    /\ \/ t.vault.parse = "ok" /\ t.oracle.parse \in {"ok", "short"}
                       \/ t.vault.parse = "bad" /\ t.oracle.parse = "ok"}}

\* the orders in which a HashMap keyed by mint can be walked
Orders == {<<"m1", "m2">>, <<"m2", "m1">>}

\* OxediumAmmVenue::from_account
OxediumNew ==
    [kind |-> "oxedium", initialized |-> FALSE, vaults |-> EmptyMap,
     mints |-> EmptyMap, oracles |-> EmptyMap, token_infos |-> <<>>]

\* the keys of map m in the order `order`
RECURSIVE InOrder(_, _)
InOrder(order, m) ==
    IF order = <<>> THEN <<>>
    ELSE (IF Head(order) \in DOMAIN m THEN <<Head(order)>> ELSE <<>>)
         \o InOrder(Tail(order), m)

\* update_state, the loop over MINT_ORACLES: the vaults inserted
RECURSIVE load_vaults(_, _, _)
load_vaults(vaults, ms, accounts) ==
    IF ms = <<>> THEN vaults
    ELSE LET vault_account == accounts[Head(ms)].vault
             next == IF vault_account # NoAccount /\ vault_account.parse = "ok"
                     THEN Insert(vaults, Head(ms),
                                 [pyth_price_account |-> oracle_for_mint(Head(ms)),
                                  current_liquidity |-> vault_account.current_liquidity])
                     ELSE vaults
         IN load_vaults(next, Tail(ms), accounts)

\* update_state, the loop over MINT_ORACLES: the mints inserted
RECURSIVE load_mints(_, _, _)
load_mints(mints, ms, accounts) ==
    IF ms = <<>> THEN mints
    ELSE LET mint_account == accounts[Head(ms)].mint
             next == IF mint_account # NoAccount /\ mint_account.parse = "ok"
                     THEN Insert(mints, Head(ms), mint_account.decimals)
                     ELSE mints
         IN load_mints(next, Tail(ms), accounts)

\* update_state, the loop over self.vaults.values(), walked in the order vs:
\* data[ANCHOR_DISCRIMINATOR_LEN..] of an oracle account shorter than the
\* discriminator panics
RECURSIVE load_oracles(_, _, _, _)
load_oracles(oracles, vaults, vs, accounts) ==
    IF vs = <<>> THEN [oracles |-> oracles, panicked |-> FALSE]
    ELSE LET oracle_account == accounts[Head(vs)].oracle
             key == vaults[Head(vs)].pyth_price_account
         IN IF oracle_account = NoAccount \/ oracle_account.parse = "bad"
            THEN load_oracles(oracles, vaults, Tail(vs), accounts)
            ELSE IF oracle_account.parse = "short"
            THEN [oracles |-> oracles, panicked |-> TRUE]
            ELSE load_oracles(Insert(oracles, key, oracle_account.price),
                              vaults, Tail(vs), accounts)

\* OxediumAmmVenue::update_state, given what cache.get_accounts returned
oxedium_update_state(v, accounts, order) ==
    IF accounts.kind = "Panic" THEN [venue |-> v, ret |-> Panic]
    ELSE IF accounts.kind = "Err" THEN [venue |-> v, ret |-> VenueErr("AccountCacheError")]
    ELSE LET vaults == load_vaults(v.vaults, MINT_ORACLES, accounts.val)
             mints == load_mints(v.mints, MINT_ORACLES, accounts.val)
             o == load_oracles(v.oracles, vaults, InOrder(order, vaults), accounts.val)
             loaded == [v EXCEPT !.vaults = vaults, !.mints = mints,
                                 !.oracles = o.oracles]
         IN IF o.panicked
            THEN [venue |-> loaded, ret |-> Panic]
            ELSE [venue |-> [loaded EXCEPT !.token_infos = InOrder(order, mints),
                                           !.initialized = TRUE],
                  ret |-> Ok(<<>>)]

\* what compute_swap_math answers in one quote: an error, <<>>, or net_amount_out
SwapMathOutcomes == {<<>>, Some(0), Some(3), Some(9)}

\* OxediumAmmVenue::quote
oxedium_quote(v, request, swap_math) ==
    IF ~v.initialized THEN VenueErr("NotInitialized")
    ELSE IF request.input_mint \notin DOMAIN v.vaults THEN VenueErr("VaultNotFound")
    ELSE IF request.output_mint \notin DOMAIN v.vaults THEN VenueErr("VaultNotFound")
    ELSE IF request.input_mint \notin DOMAIN v.mints THEN VenueErr("InvalidMint")
    ELSE IF request.output_mint \notin DOMAIN v.mints THEN VenueErr("InvalidMint")
    ELSE IF v.vaults[request.input_mint].pyth_price_account \notin DOMAIN v.oracles
    THEN VenueErr("OracleNotFound")
    ELSE IF v.vaults[request.output_mint].pyth_price_account \notin DOMAIN v.oracles
    THEN VenueErr("OracleNotFound")
    ELSE IF swap_math = <<>> THEN VenueErr("MathError")
    ELSE Ok(QuoteOk(swap_math[1],
                    swap_math[1] > v.vaults[request.output_mint].current_liquidity))

\* the requests made of an Oxedium venue
OxQuoteRequests ==
    [input_mint : OxMints \cup {"other"}, output_mint : OxMints \cup {"other"},
     amount : QuoteAmounts, swap_type : {"ExactIn"}]

\* ---- get_required_pubkeys_for_update

\* RaydiumAmmVenue::get_required_pubkeys_for_update.  required_state_pubkeys
\* holds the five keys of amm_keys from from_account on; update_state extends
\* it by the same five.
raydium_get_required_pubkeys_for_update(v) ==
    IF ~v.found_all_pubkeys THEN VenueErr("NotInitialized")
    ELSE Ok({"amm_pool", "amm_pc_vault", "amm_coin_vault", "amm_coin_mint", "amm_pc_mint"})

\* OxediumAmmVenue::get_required_pubkeys_for_update, as a set
oxedium_get_required_pubkeys_for_update(v) ==
    Ok(UNION {{<<"vault", m>>, <<"mint", m>>, oracle_for_mint(m)} : m \in OxMints})

\* ---- bounds

\* the mints of get_token_info(), in its order
TokenMints(v) ==
    IF v.kind = "raydium" THEN SubSeq(<<"coin", "pc">>, 1, Len(v.token_info))
    ELSE v.token_infos

\* TradingVenue::get_token(i), the mint of the token
get_token(v, i) ==
    IF i < Len(TokenMints(v)) THEN Ok(TokenMints(v)[i + 1])
    ELSE VenueErr("TokenInfoIndexError")

\* the pricing function that errors at every amount
NoQuote == [a |-> 1, b |-> 0, below |-> "err", above |-> "err", hole |-> <<>>]

\* what the swap math of a venue can make of an ExactIn quote, as a function of
\* the amount: valid everywhere, valid on a stretch, valid at one amount only
VenuePricing ==
    {[a |-> 1, b |-> MAXU, below |-> "err", above |-> "err", hole |-> <<>>],
     [a |-> 3, b |-> 300, below |-> "err", above |-> "err", hole |-> <<>>],
     [a |-> 3, b |-> 3, below |-> "err", above |-> "err", hole |-> <<>>]}

\* whether quote of an ExactIn request for the two mints gets to a QuoteResult
\* for some answer of the swap math
CanQuote(v, input_mint, output_mint) ==
    \E amount \in QuoteAmounts :
        LET request == [input_mint |-> input_mint, output_mint |-> output_mint,
                        amount |-> amount, swap_type |-> "ExactIn"]
        IN IF v.kind = "raydium"
           THEN \E math \in MathOutcomes : raydium_quote(v, request, math).kind = "Ok"
           ELSE \E swap_math \in SwapMathOutcomes :
                    oxedium_quote(v, request, swap_math).kind = "Ok"

\* the closure f of bounds: quote of the venue, with fn what its swap math
\* makes of the amounts
quote_closure(v, input_mint, output_mint, fn) ==
    IF CanQuote(v, input_mint, output_mint) THEN fn ELSE NoQuote

\* TradingVenue::bounds
bounds(v, tkn_in_ind, tkn_out_ind, fn) ==
    LET input_mint == get_token(v, tkn_in_ind)
        output_mint == get_token(v, tkn_out_ind)
    IN IF input_mint.kind # "Ok" THEN input_mint
       ELSE IF output_mint.kind # "Ok" THEN output_mint
       ELSE LET r == find_boundaries(
                         quote_closure(v, input_mint.val, output_mint.val, fn))
            IN IF r.kind = "Ok" THEN Ok(<<r.lower_bound, r.upper_bound>>)
               ELSE VenueErr(r.kind)

\* ---- generate_swap_instruction

Users == {"u1"}
get_associated_token_address(user, mint) == <<"ata", user, mint>>

\* an instruction whose amount is the output of a quote of the request
raydium_generate_swap_instruction_from_quote(v, request, user) ==
    LET q == raydium_quote(v, request, [ceil_div |-> Some(1), base_in |-> Some(4),
                                        base_out |-> 2])
        user_token_mint_coin == get_associated_token_address(user, "coin")
        user_token_mint_pc == get_associated_token_address(user, "pc")
        user_source == IF request.input_mint = "coin" THEN user_token_mint_coin
                       ELSE user_token_mint_pc
        user_destination == IF request.input_mint = "coin" THEN user_token_mint_pc
                            ELSE user_token_mint_coin
    IN Ok([program_id |-> "raydium",
           accounts |-> <<"spl_token", "amm_pool", "amm_authority", "amm_coin_vault",
                          "amm_pc_vault", user_source, user_destination, user>>,
           amount_in |-> IF q.kind = "Ok" THEN q.val.expected_output ELSE request.amount,
           minimum_amount_out |-> 0])

\* RaydiumAmmVenue::generate_swap_instruction, with swap_v2 and swap_base_in_v2
raydium_generate_swap_instruction(v, request, user) ==
    LET user_token_mint_coin == get_associated_token_address(user, "coin")
        user_token_mint_pc == get_associated_token_address(user, "pc")
        user_source == IF request.input_mint = "coin" THEN user_token_mint_coin
                       ELSE user_token_mint_pc
        user_destination == IF request.input_mint = "coin" THEN user_token_mint_pc
                            ELSE user_token_mint_coin
    IN Ok([program_id |-> "raydium",
           accounts |-> <<"spl_token", "amm_pool", "amm_authority", "amm_coin_vault",
                          "amm_pc_vault", user_source, user_destination, user>>,
           amount_in |-> request.amount,
           minimum_amount_out |-> 0])

\* OxediumAmmVenue::generate_swap_instruction
oxedium_generate_swap_instruction(v, request, user) ==
    IF request.input_mint \notin OxMints \/ request.output_mint \notin OxMints
    THEN VenueErr("OracleNotFound")
    ELSE Ok([program_id |-> "oxedium",
             accounts |-> <<user, request.input_mint, request.output_mint,
                            oracle_for_mint(request.input_mint),
                            oracle_for_mint(request.output_mint),
                            get_associated_token_address(user, request.input_mint),
                            get_associated_token_address(user, request.output_mint),
                            <<"vault", request.input_mint>>,
                            <<"vault", request.output_mint>>,
                            "treasury",
                            get_associated_token_address("treasury", request.input_mint),
                            get_associated_token_address("treasury", request.output_mint),
                            "associated_token_program", "spl_token", "system_program">>,
             amount_in |-> request.amount,
             minimum_amount_out |-> 1])

\* ---- the account table as the venues use it

\* The accounts the chain can hold, by name: the table keeps a name per key
\* (Some(account)) or None, the venues look at the data.
AccountData ==
    [pool_bad |-> [parse |-> "bad", status |-> "swap", calc |-> "ok",
                   swap_fee_numerator |-> 0, swap_fee_denominator |-> 0],
     pool_orderbook |-> [parse |-> "ok", status |-> "orderbook", calc |-> "ok",
                         swap_fee_numerator |-> 1, swap_fee_denominator |-> 4],
     pool_unknown |-> [parse |-> "ok", status |-> "unknown", calc |-> "ok",
                       swap_fee_numerator |-> 1, swap_fee_denominator |-> 4],
     pool_calc_fails |-> [parse |-> "ok", status |-> "swap", calc |-> "fails",
                          swap_fee_numerator |-> 1, swap_fee_denominator |-> 4],
     pool_ok |-> [parse |-> "ok", status |-> "swap", calc |-> "ok",
                  swap_fee_numerator |-> 1, swap_fee_denominator |-> 4],
     vault_short |-> [parse |-> "short", amount |-> 0],
     vault_bad |-> [parse |-> "bad", amount |-> 7],
     vault_ok |-> [parse |-> "ok", amount |-> 5],
     mint_bad |-> [parse |-> "bad", decimals |-> 0],
     mint_ok |-> [parse |-> "ok", decimals |-> 6],
     ox_vault_bad |-> [parse |-> "bad"],
     ox_vault_ok |-> [parse |-> "ok", current_liquidity |-> 5],
     oracle_short |-> [parse |-> "short"],
     oracle_bad |-> [parse |-> "bad"],
     oracle_ok |-> [parse |-> "ok", price |-> 2]]

\* Option<Account> as the venue reads it
Account(x) == IF x = None THEN NoAccount ELSE AccountData[x]

\* `accounts_pubkeys` of RaydiumAmmVenue::update_state
RaydiumKeys == <<"amm_pool", "amm_pc_vault", "amm_coin_vault", "amm_coin_mint", "amm_pc_mint">>

\* the keys OxediumAmmVenue::get_required_pubkeys_for_update pushes for one mint
OxKeysOf(mint) == <<<<"vault", mint>>, <<"mint", mint>>, oracle_for_mint(mint)>>

\* OxediumAmmVenue::get_required_pubkeys_for_update: the keys, in its order
RECURSIVE OxediumKeysFrom(_)
OxediumKeysFrom(ms) ==
    IF ms = <<>> THEN <<>> ELSE OxKeysOf(Head(ms)) \o OxediumKeysFrom(Tail(ms))

OxediumKeys == OxediumKeysFrom(MINT_ORACLES)

\* the accounts that the chain can hold under a key of a venue
Holds(kind, k) ==
    IF kind = "raydium"
    THEN IF k = "amm_pool"
         THEN {"pool_bad", "pool_orderbook", "pool_unknown", "pool_calc_fails", "pool_ok"}
         ELSE IF k \in {"amm_pc_vault", "amm_coin_vault"}
         THEN {"vault_short", "vault_bad", "vault_ok"}
         ELSE {"mint_bad", "mint_ok"}
    ELSE IF k[1] = "vault" THEN {"ox_vault_bad", "ox_vault_ok"}
         ELSE IF k[1] = "mint" THEN {"mint_bad", "mint_ok"}
         ELSE {"oracle_short", "oracle_bad", "oracle_ok"}

\* one Option<Account> per key of ks, all read from the chain
RECURSIVE ChainAnswers(_, _)
ChainAnswers(kind, ks) ==
    IF ks = <<>> THEN {<<>>}
    ELSE {<<x>> \o rest : x \in Holds(kind, Head(ks)) \cup {None},
                          rest \in ChainAnswers(kind, Tail(ks))}

\* what rpc_client.get_multiple_accounts(&keys) can answer: an error, or one
\* Option<Account> per key, or a list that is one short
RpcAnswers(kind, ks) ==
    {Err} \cup {Ok(resp) : resp \in ChainAnswers(kind, ks)}
          \cup {Ok(SubSeq(resp, 1, Len(ks) - 1)) : resp \in ChainAnswers(kind, ks)}

\* RpcClientCache::get_accounts run from call to return with no other caller
\* in between, given what the remote call answers if it is made
get_accounts_alone(c, ks, rpc) ==
    LET cached_results == get_multiple(c, ks)
        missing == MissKeys(cached_results, ks)
        hits == HitMap(cached_results, ks)
    IN IF missing = <<>>
       THEN [cache |-> c, ret |-> Reassemble(ks, hits)]
       ELSE IF rpc.kind # "Ok"
       THEN [cache |-> c, ret |-> Err]
       ELSE [cache |-> ZipInsert(c, missing, rpc.val),
             ret |-> Reassemble(ks, ZipInsert(hits, missing, rpc.val))]

\* the five Option<Account> of RaydiumAmmVenue::update_state's destructuring
RaydiumAccountsOf(r) ==
    IF r.kind # "Ok" THEN r
    ELSE Ok([amm_pool |-> Account(r.val[1]), amm_pc_vault |-> Account(r.val[2]),
             amm_coin_vault |-> Account(r.val[3]), mint0 |-> Account(r.val[4]),
             mint1 |-> Account(r.val[5])])

\* OxediumAmmVenue::update_state's account_map, by mint
OxediumAccountsOf(r) ==
    IF r.kind # "Ok" THEN r
    ELSE Ok([m \in OxMints |->
                LET i == CHOOSE j \in 1..Len(MINT_ORACLES) : MINT_ORACLES[j] = m
                IN [vault |-> Account(r.val[3 * i - 2]), mint |-> Account(r.val[3 * i - 1]),
                    oracle |-> Account(r.val[3 * i])]])

\* ---- the calls on a venue

\* a venue has been constructed by from_account
InitVenue ==
    /\ InitCache /\ counting = FALSE /\ NoSearch
    /\ venue \in {RaydiumNew, OxediumNew}
    /\ call = NoCall

\* the missing keys of `ks`, which get_accounts sends to the remote
Missing(c, ks) == MissKeys(get_multiple(c, ks), ks)

\* RaydiumAmmVenue::update_state.  (get_accounts returns five accounts or none:
\* the conversion to [Option<Account>; 5] does not fail.)
RaydiumUpdateState ==
    /\ venue.kind = "raydium"
    /\ call = NoCall
    /\ \E rpc \in RpcAnswers("raydium", Missing(cache, RaydiumKeys)) :
        LET g == get_accounts_alone(cache, RaydiumKeys, rpc)
            accounts == RaydiumAccountsOf(g.ret)
            r == raydium_update_state(venue, accounts)
        IN /\ accounts \in AccountsResults(RaydiumAccounts)
           /\ cache' = g.cache
           /\ venue' = r.venue
           /\ call' = [op |-> "update_state", before |-> venue, table |-> cache,
                       accounts |-> accounts, ret |-> r.ret]
    /\ UNCHANGED <<locals, record, counters, boundsVars>>

\* a quote that takes the amount it quoted out of the balance it holds
RaydiumQuote_taking_liquidity ==
    /\ venue.kind = "raydium"
    /\ call = NoCall
    /\ \E request \in QuoteRequests, math \in MathOutcomes :
        LET r == raydium_quote(venue, request, math)
        IN /\ call' = [op |-> "quote", before |-> venue, table |-> cache,
                       request |-> request, ret |-> r]
           /\ venue' = IF r.kind = "Ok"
                       THEN [venue EXCEPT !.coin_balance = (@ + request.amount) % (MAXU + 1)]
                       ELSE venue
    /\ UNCHANGED <<cacheVars, boundsVars>>

\* RaydiumAmmVenue::quote
RaydiumQuote ==
    /\ venue.kind = "raydium"
    /\ call = NoCall
    /\ \E request \in QuoteRequests, math \in MathOutcomes :
        call' = [op |-> "quote", before |-> venue, table |-> cache,
                 request |-> request, ret |-> raydium_quote(venue, request, math)]
    /\ UNCHANGED <<venue, cacheVars, boundsVars>>

\* OxediumAmmVenue::update_state
OxediumUpdateState ==
    /\ venue.kind = "oxedium"
    /\ call = NoCall
    /\ \E rpc \in RpcAnswers("oxedium", Missing(cache, OxediumKeys)), order \in Orders :
        LET g == get_accounts_alone(cache, OxediumKeys, rpc)
            accounts == OxediumAccountsOf(g.ret)
            r == oxedium_update_state(venue, accounts, order)
        IN /\ accounts \in AccountsResults(OxediumAccounts)
           /\ cache' = g.cache
           /\ venue' = r.venue
           /\ call' = [op |-> "update_state", before |-> venue, table |-> cache,
                       accounts |-> accounts, ret |-> r.ret]
    /\ UNCHANGED <<locals, record, counters, boundsVars>>

\* OxediumAmmVenue::quote
OxediumQuote ==
    /\ venue.kind = "oxedium"
    /\ call = NoCall
    /\ \E request \in OxQuoteRequests, swap_math \in SwapMathOutcomes :
        call' = [op |-> "quote", before |-> venue, table |-> cache,
                 request |-> request, ret |-> oxedium_quote(venue, request, swap_math)]
    /\ UNCHANGED <<venue, cacheVars, boundsVars>>

\* RaydiumAmmVenue::get_required_pubkeys_for_update
RaydiumGetRequiredPubkeys ==
    /\ venue.kind = "raydium"
    /\ call = NoCall
    /\ call' = [op |-> "get_required_pubkeys_for_update", before |-> venue,
                table |-> cache,
                ret |-> raydium_get_required_pubkeys_for_update(venue)]
    /\ UNCHANGED <<venue, cacheVars, boundsVars>>

\* OxediumAmmVenue::get_required_pubkeys_for_update
OxediumGetRequiredPubkeys ==
    /\ venue.kind = "oxedium"
    /\ call = NoCall
    /\ call' = [op |-> "get_required_pubkeys_for_update", before |-> venue,
                table |-> cache,
                ret |-> oxedium_get_required_pubkeys_for_update(venue)]
    /\ UNCHANGED <<venue, cacheVars, boundsVars>>

\* the token indices bounds is called with
TokenIndices == 0..2

\* TradingVenue::bounds, which neither venue overrides
Bounds ==
    /\ venue.kind \in {"raydium", "oxedium"}
    /\ call = NoCall
    /\ \E tkn_in_ind \in TokenIndices, tkn_out_ind \in TokenIndices, fn \in VenuePricing :
        call' = [op |-> "bounds", before |-> venue, table |-> cache,
                 tkn_in_ind |-> tkn_in_ind, tkn_out_ind |-> tkn_out_ind, fn |-> fn,
                 ret |-> bounds(venue, tkn_in_ind, tkn_out_ind, fn)]
    /\ UNCHANGED <<venue, cacheVars, boundsVars>>

\* RaydiumAmmVenue::generate_swap_instruction
RaydiumGenerateSwapInstruction ==
    /\ venue.kind = "raydium"
    /\ call = NoCall
    /\ \E request \in QuoteRequests, user \in Users :
        call' = [op |-> "generate_swap_instruction", before |-> venue, table |-> cache,
                 request |-> request, user |-> user,
                 ret |-> raydium_generate_swap_instruction(venue, request, user)]
    /\ UNCHANGED <<venue, cacheVars, boundsVars>>

\* OxediumAmmVenue::generate_swap_instruction
OxediumGenerateSwapInstruction ==
    /\ venue.kind = "oxedium"
    /\ call = NoCall
    /\ \E request \in OxQuoteRequests, user \in Users :
        call' = [op |-> "generate_swap_instruction", before |-> venue, table |-> cache,
                 request |-> request, user |-> user,
                 ret |-> oxedium_generate_swap_instruction(venue, request, user)]
    /\ UNCHANGED <<venue, cacheVars, boundsVars>>

\* the caller takes the result of the call
VenueReturn ==
    /\ call # NoCall
    /\ call' = NoCall
    /\ UNCHANGED <<venue, cacheVars, boundsVars>>

NextVenue ==
    \/ RaydiumUpdateState
    \/ RaydiumQuote
    \/ OxediumUpdateState
    \/ OxediumQuote
    \/ RaydiumGetRequiredPubkeys
    \/ OxediumGetRequiredPubkeys
    \/ Bounds
    \/ RaydiumGenerateSwapInstruction
    \/ OxediumGenerateSwapInstruction
    \/ VenueReturn

SpecVenue == InitVenue /\ [][NextVenue]_vars

\* ---- swap_with_slippage called on its own (a pub fn of example/amm.rs)

\* the slippage tolerances checked, in basis points
SlippageBps == {0, 300}

\* the outcomes of the functions of example/raydium/math.rs, with an amount
\* near the top of the range among them
SwapMathCases ==
    MathOutcomes \cup {[ceil_div |-> Some(MAXU), base_in |-> Some(MAXU), base_out |-> 2]}

\* the arguments of swap_with_slippage that are checked
SwapCalls ==
    [pc_amount : {5, MAXU}, coin_amount : {5, MAXU},
     pc_vault_amount : {5, MAXU}, coin_vault_amount : {5, MAXU},
     swap_fee_numerator : {1}, swap_fee_denominator : {4},
     swap_direction : {"PC2Coin", "Coin2PC"}, amount_specified : {0, 3, MAXU},
     swap_base_in : BOOLEAN, slippage_bps : SlippageBps, math : SwapMathCases]

InitSwapMath ==
    /\ InitCache /\ counting = FALSE /\ NoSearch
    /\ venue = [kind |-> "none"]
    /\ \E a \in SwapCalls : call = [op |-> "swap_with_slippage", args |-> a, ret |-> NoRet]

\* swap_with_slippage runs on its arguments and returns
SwapWithSlippage ==
    /\ call.op = "swap_with_slippage"
    /\ call.ret = NoRet
    /\ LET a == call.args
       IN call' = [call EXCEPT !.ret =
                    swap_with_slippage(a.pc_amount, a.coin_amount, a.pc_vault_amount,
                                       a.coin_vault_amount, a.swap_fee_numerator,
                                       a.swap_fee_denominator, a.swap_direction,
                                       a.amount_specified, a.swap_base_in,
                                       a.slippage_bps, a.math)]
    /\ UNCHANGED <<venue, cacheVars, boundsVars>>

NextSwapMath == SwapWithSlippage

SpecSwapMath == InitSwapMath /\ [][NextSwapMath]_vars

\* ------------------------------------------------------------------ PoolProtocol
\* src/src/trading_venue/protocol.rs: the calls that turn a PoolProtocol into
\* text.  call.stack holds the frames of the functions entered and not yet
\* returned from, the innermost last.

\* the ways in: format!("{}", p) (Display::fmt), p.to_string(), String::from(p)
DisplayEntries == {"fmt", "to_string", "from"}

InitDisplay ==
    /\ InitCache /\ counting = FALSE /\ NoSearch
    /\ venue = [kind |-> "none"]
    /\ \E e \in DisplayEntries :
        call = [op |-> "display", entry |-> e, stack |-> <<e>>, ret |-> NoRet]

Top == call.stack[Len(call.stack)]

\* <PoolProtocol as Display>::fmt: `write!(f, "{}", self.to_string())` first
\* evaluates its argument self.to_string()
FmtCallsToString ==
    /\ call.op = "display" /\ call.ret = NoRet
    /\ Top = "fmt"
    /\ Len(call.stack) < MaxFrames
    /\ call' = [call EXCEPT !.stack = Append(@, "to_string")]
    /\ UNCHANGED <<venue, cacheVars, boundsVars>>

\* self.to_string() on a type that implements Display is ToString::to_string
\* of `impl<T: Display> ToString for T`, which formats self with Display::fmt;
\* From<PoolProtocol> for String gives String::from and into, not to_string
ToStringCallsFmt ==
    /\ call.op = "display" /\ call.ret = NoRet
    /\ Top = "to_string"
    /\ Len(call.stack) < MaxFrames
    /\ call' = [call EXCEPT !.stack = Append(@, "fmt")]
    /\ UNCHANGED <<venue, cacheVars, boundsVars>>

\* one frame too many: the thread overflows its stack and the process aborts
StackOverflow ==
    /\ call.op = "display" /\ call.ret = NoRet
    /\ Top \in {"fmt", "to_string"}
    /\ Len(call.stack) = MaxFrames
    /\ call' = [call EXCEPT !.ret = Panic]
    /\ UNCHANGED <<venue, cacheVars, boundsVars>>

\* <String as From<PoolProtocol>>::from: the canonical string
FromPoolProtocol ==
    /\ call.op = "display" /\ call.ret = NoRet
    /\ Top = "from"
    /\ call' = [call EXCEPT !.stack = SubSeq(@, 1, Len(@) - 1),
                            !.ret = Ok(Some("Oxedium"))]
    /\ UNCHANGED <<venue, cacheVars, boundsVars>>

NextDisplay ==
    \/ FmtCallsToString
    \/ ToStringCallsFmt
    \/ StackOverflow
    \/ FromPoolProtocol

SpecDisplay == InitDisplay /\ [][NextDisplay]_vars

\* ------------------------------------------------------------------ claims on the venues
\* TradingVenue::initialized
initialized(v) == IF v.kind = "raydium" THEN v.found_all_pubkeys ELSE v.initialized

Loaded(account) == account # NoAccount /\ account.parse = "ok"

\* every account of the venue's required keys is there and parses
AllLoaded(kind, accounts) ==
    IF kind = "raydium"
    THEN /\ Loaded(accounts.amm_pool) /\ Loaded(accounts.amm_pc_vault)
         /\ Loaded(accounts.amm_coin_vault)
         /\ Loaded(accounts.mint0) /\ Loaded(accounts.mint1)
    ELSE \A m \in OxMints :
            Loaded(accounts[m].vault) /\ Loaded(accounts[m].mint) /\ Loaded(accounts[m].oracle)

UpdateReturned == call.op = "update_state"

\* C17 (as claimed): an update_state that is handed a required account that is
\* missing or does not parse returns an error and does not make the venue Ready.
C17_ReadyOnlyWhenAllLoaded ==
    (UpdateReturned /\ call.accounts.kind = "Ok"
        /\ ~AllLoaded(venue.kind, call.accounts.val)) =>
        /\ call.ret.kind = "Err"
        /\ initialized(venue) => initialized(call.before)

\* C18 (as claimed): an update_state that returns an error leaves every field of
\* the venue as it was before the call.
C18_FailedUpdateLeavesState ==
    (UpdateReturned /\ call.ret.kind = "Err") => venue = call.before

\* C19: when update_state returns an error, initialized() is what it was before
\* the call.
C19_FailedUpdateKeepsFlag ==
    (UpdateReturned /\ call.ret.kind = "Err") =>
        initialized(venue) = initialized(call.before)

\* an update_state that failed on the accounts it was handed, after it had
\* changed a field of a venue that was not Ready
C19_Witness ==
    /\ UpdateReturned
    /\ call.ret.kind = "Err"
    /\ call.accounts.kind = "Ok"
    /\ venue # call.before
    /\ ~initialized(venue)

\* C20 (as claimed): quote of a request with amount 0 on a Ready venue returns
\* a QuoteResult.
C20_ZeroAmountQuote ==
    (call.op = "quote" /\ call.request.amount = 0 /\ initialized(venue)) =>
        call.ret.kind = "Ok"

\* C21 (as claimed): get_required_pubkeys_for_update returns the keys of the
\* venue's static configuration in every lifecycle state, Ready or not.
C21_RequiredKeysAlways ==
    call.op = "get_required_pubkeys_for_update" =>
        /\ call.ret.kind = "Ok"
        /\ call.ret.val = Range(IF venue.kind = "raydium" THEN RaydiumKeys ELSE OxediumKeys)

\* C22: bounds on a venue that is not Ready returns an error, whatever
\* update_state calls came before.
C22_BoundsNeedsReady ==
    (call.op = "bounds" /\ ~initialized(call.before)) => call.ret.kind = "Err"

\* bounds was called on a venue that is not Ready and holds state that a failed
\* update_state left
C22_Witness ==
    /\ call.op = "bounds"
    /\ ~initialized(call.before)
    /\ call.before.kind = "raydium"
    /\ call.before.calculate_result # <<>>
    /\ call.ret.kind = "Err"

\* C23 (as claimed): quote on a venue that is not Ready returns an error,
\* whatever update_state calls came before.
C23_QuoteNeedsReady ==
    (call.op = "quote" /\ ~initialized(call.before)) => call.ret.kind = "Err"

\* the result quote gives for the request on venue v, for some answer of the
\* swap math
QuoteGives(v, request, result) ==
    IF v.kind = "raydium"
    THEN \E math \in MathOutcomes : raydium_quote(v, request, math) = result
    ELSE \E swap_math \in SwapMathOutcomes : oxedium_quote(v, request, swap_math) = result

C25_FailuresKeepTableAndReady ==
    call.op # "none" =>
        /\ call.ret.kind # "Ok" =>
            \A k \in DOMAIN call.table : k \in DOMAIN cache /\ cache[k] = call.table[k]
        /\ initialized(call.before) => initialized(venue)

\* C26: the instruction generate_swap_instruction builds has request.amount as
\* its input amount and is the one a venue without any loaded state builds for
\* the request: nothing in it comes from a quote.
C26_InstructionFromRequest ==
    (call.op = "generate_swap_instruction" /\ call.ret.kind = "Ok") =>
        /\ call.ret.val.amount_in = call.request.amount
        /\ call.ret =
            IF venue.kind = "raydium"
            THEN raydium_generate_swap_instruction(RaydiumNew, call.request, call.user)
            ELSE oxedium_generate_swap_instruction(OxediumNew, call.request, call.user)

\* an instruction was built for a request that the venue, being Ready, can
\* quote with an output that differs from the amount
C26_Witness ==
    /\ call.op = "generate_swap_instruction"
    /\ call.ret.kind = "Ok"
    /\ initialized(venue)
    /\ \E result \in {Ok(QuoteOk(4, FALSE)), Ok(QuoteOk(9, FALSE))} :
            QuoteGives(venue, call.request, result)


\* an account update_state was handed has a payload too short for the bytes
\* the venue reads from it
ShortPayload(kind, accounts) ==
    IF kind = "raydium"
    THEN \E a \in {accounts.amm_pc_vault, accounts.amm_coin_vault} :
            a # NoAccount /\ a.parse = "short"
    ELSE \E m \in OxMints :
            accounts[m].oracle # NoAccount /\ accounts[m].oracle.parse = "short"

\* C36 (as claimed): an update_state that is handed an account whose payload is
\* too short (a Raydium vault under 72 bytes, an oracle under the 8-byte
\* discriminator) returns an error or returns having skipped the account; it
\* never aborts.
C36_ShortPayloadNoAbort ==
    (UpdateReturned /\ call.accounts.kind = "Ok"
        /\ ShortPayload(venue.kind, call.accounts.val)) =>
        call.ret.kind \in {"Ok", "Err"}


\* C37 (as claimed): swap_with_slippage ends every overflow in a typed error:
\* MathError when the balance of the input vault plus amount_specified does not
\* fit an amount, and an error, not an abort, when the amount adjusted for
\* slippage does not fit.
C37_OverflowIsTypedError ==
    (call.op = "swap_with_slippage" /\ call.ret # NoRet) =>
        /\ call.ret.kind \in {"Ok", "Err"}
        /\ LET a == call.args
               balance == IF a.swap_direction = "PC2Coin" THEN a.pc_amount
                          ELSE a.coin_amount
           IN balance + a.amount_specified > MAXU => call.ret = VenueErr("MathError")


\* the vault amount of the token that request asks for, as the venue holds it
OutputVaultAmount(v, request) ==
    IF request.output_mint = "pc"
    THEN v.calculate_result[1].pool_pc_vault_amount
    ELSE v.calculate_result[1].pool_coin_vault_amount

\* C38: a quote of the Raydium venue that returns a QuoteResult has
\* expected_output below the pool's vault amount of the output token, and a
\* request for which swap_exact_amount computes that amount or more gets an
\* error.
C38_OutputBelowVault ==
    (call.op = "quote" /\ venue.kind = "raydium") =>
        /\ call.ret.kind = "Ok" =>
            call.ret.val.expected_output < OutputVaultAmount(venue, call.request)
        /\ (venue.calculate_result # <<>>
                /\ {call.request.input_mint, call.request.output_mint} = {"pc", "coin"}) =>
            \A math \in MathOutcomes :
                LET c == venue.calculate_result[1]
                    x == swap_exact_amount(c.swap_fee_numerator, c.swap_fee_denominator,
                                           call.request.amount,
                                           call.request.swap_type = "ExactIn", math)
                IN (x.kind = "Ok" /\ x.val >= OutputVaultAmount(venue, call.request)) =>
                    raydium_quote(venue, call.request, math).kind = "Err"

\* a quote was answered with the largest amount the output vault allows
C38_Witness ==
    /\ call.op = "quote" /\ venue.kind = "raydium"
    /\ call.ret.kind = "Ok"
    /\ call.ret.val.expected_output + 1 = OutputVaultAmount(venue, call.request)


\* C39 (as claimed): formatting a PoolProtocol through Display enters fmt once
\* (to_string does not come back to fmt), does not abort, and what it yields is
\* the string of From<PoolProtocol> for String.
C39_DisplayTerminates ==
    (call.op = "display" /\ call.entry = "fmt") =>
        /\ Cardinality({i \in 1..Len(call.stack) : call.stack[i] = "fmt"}) <= 1
        /\ call.ret.kind # "Panic"
        /\ call.ret # NoRet => call.ret = Ok(Some("Oxedium"))

====
